---- MODULE Spec2Model ----
(***************************************************************************)
(* Task engine of the typed task manager (ts/taskService.ts, ts/storage.ts *)
(* and ts/utilities.ts): validation of untyped input, the CRUD operations  *)
(* over the whole persisted collection, the dependency gate, the calls of  *)
(* several callers interleaved at the storage adapter, sorting, querying,  *)
(* statistics and recurrence.                                              *)
(*                                                                         *)
(* A JavaScript optional value is a sequence of length 0 (undefined) or 1. *)
(* Strings are TLA+ strings; trim and toLowerCase are given on the strings *)
(* the inputs are drawn from.  An ISO date string is the day number it     *)
(* parses to, NaD standing for a string that does not parse.               *)
(*                                                                         *)
(* storage is the array under the storage key; last records the last call  *)
(* of the engine used by one caller at a time; calls holds the calls in    *)
(* flight when several callers share the engine; probe records the last    *)
(* call of a read-only operation.                                          *)
(***************************************************************************)
EXTENDS Integers, Sequences, FiniteSets, TLC

VARIABLES storage, nextId, clock, last, calls, probe

vars == <<storage, nextId, clock, last, calls, probe>>

----------------------------------------------------------------------------
(* Bounds of the model *)

\* number of ids generateId hands out
MaxTasks == 3
\* number of successful create/update calls (each reads the clock once)
MaxClock == 3

----------------------------------------------------------------------------
(* Optional values *)

None == <<>>
Some(v) == <<v>>
IsSome(o) == Len(o) > 0
Value(o) == o[1]
\* a ?? b
Coalesce(o, b) == IF IsSome(o) THEN Value(o) ELSE b

Range(s) == {s[i] : i \in 1..Len(s)}

----------------------------------------------------------------------------
(* Enumerations and strings *)

ALLOWED_STATUS == <<"todo", "in-progress", "done">>
ALLOWED_PRIORITY == <<"low", "medium", "high">>
ALLOWED_RECURRENCE_FREQUENCY == <<"daily", "weekly", "monthly", "custom">>

isValidStatus(status) == status \in Range(ALLOWED_STATUS)
isValidPriority(priority) == priority \in Range(ALLOWED_PRIORITY)
isValidRecurrenceFrequency(frequency) == frequency \in Range(ALLOWED_RECURRENCE_FREQUENCY)

\* String.prototype.trim on the strings of the model
Trim(s) ==
  CASE s = " " -> ""
    [] s = " x" -> "x"
    [] s = " X" -> "X"
    [] OTHER -> s

\* String.prototype.toLowerCase on the strings of the model
Lower(s) ==
  CASE s = "X" -> "x"
    [] s = "A" -> "a"
    [] OTHER -> s

\* a date string that new Date() cannot parse
NaD == -1

isValidDueDateISO(iso) == iso # NaD

\* the value null of a recurrence field
JsNull == [frequency |-> Some("null"), daysInterval |-> None, endDate |-> None]

----------------------------------------------------------------------------
(* utilities.ts *)

RECURSIVE uniqueFrom(_, _)
uniqueFrom(items, seen) ==
  IF items = <<>> THEN <<>>
  ELSE IF Head(items) \in seen THEN uniqueFrom(Tail(items), seen)
  ELSE <<Head(items)>> \o uniqueFrom(Tail(items), seen \cup {Head(items)})

unique(items) == uniqueFrom(items, {})

RECURSIVE normalizeFrom(_, _)
normalizeFrom(tags, seen) ==
  IF tags = <<>> THEN <<>>
  ELSE LET normalized == Lower(Trim(Head(tags))) IN
       IF normalized # "" /\ normalized \notin seen
       THEN <<Trim(Head(tags))>> \o normalizeFrom(Tail(tags), seen \cup {normalized})
       ELSE normalizeFrom(Tail(tags), seen)

\* faulty variant: tags that differ in case only are both kept
normalizeTags_CaseSensitive(tags) ==
  SelectSeq(unique([i \in 1..Len(tags) |-> Trim(tags[i])]), LAMBDA tag : tag # "")

normalizeTags(tags) == normalizeFrom(tags, {})

\* the ids generateId returns, in the order of the calls (all different)
GenIds == <<"t1", "t2", "t3", "t4", "t5", "t6", "t7", "t8">>

generateId(n) == IF n <= Len(GenIds) THEN GenIds[n] ELSE "t" \o ToString(n)

----------------------------------------------------------------------------
(* Validation *)

Ok(data) == [success |-> TRUE, message |-> "", data |-> data]
Invalid(message) == [success |-> FALSE, message |-> message, data |-> None]

validateRecurrence(recurrence) ==
  IF recurrence = None \/ recurrence = Some(JsNull) THEN Ok(None)
  ELSE LET rec == Value(recurrence) IN
    IF rec.frequency = None THEN Invalid("Recurrence frequency is required")
    ELSE IF ~isValidRecurrenceFrequency(Value(rec.frequency))
      THEN Invalid("Recurrence frequency must be one of")
    ELSE IF Value(rec.frequency) = "custom"
      THEN IF rec.daysInterval = None \/ Value(rec.daysInterval) < 1
           THEN Invalid("Custom recurrence requires daysInterval (minimum 1)")
           ELSE Ok(Some([frequency |-> rec.frequency,
                         daysInterval |-> rec.daysInterval,
                         endDate |-> rec.endDate]))
    ELSE Ok(Some([frequency |-> rec.frequency,
                  daysInterval |-> None,
                  endDate |-> rec.endDate]))

validateDependencies(dependencies) ==
  IF dependencies = None THEN Ok(<<>>)
  ELSE LET deps == Value(dependencies) IN
    IF \E i \in 1..Len(deps) : Trim(deps[i]) = ""
    THEN Invalid("Each dependency must be a non-empty string")
    ELSE Ok(unique([i \in 1..Len(deps) |-> Trim(deps[i])]))

validateTags(tags) ==
  IF \E i \in 1..Len(tags) : Trim(tags[i]) = ""
  THEN Invalid("Tags cannot be empty")
  ELSE Ok(normalizeTags([i \in 1..Len(tags) |-> Trim(tags[i])]))

validateTaskInput(data, mode) ==
  LET title == IF IsSome(data.title) THEN Trim(Value(data.title)) ELSE ""
      description == IF IsSome(data.description) THEN Trim(Value(data.description)) ELSE ""
      statusInput == Coalesce(data.status, "todo")
      priorityInput == Coalesce(data.priority, "medium")
      dueDate == data.dueDate
      tagResult == IF IsSome(data.tags) THEN validateTags(Value(data.tags)) ELSE Ok(<<>>)
      recurrenceResult == validateRecurrence(data.recurrence)
      depsResult == validateDependencies(data.dependencies)
      base == [id |-> None,
               title |-> Some(title),
               description |-> Some(description),
               status |-> Some(statusInput),
               priority |-> Some(priorityInput),
               dueDate |-> dueDate,
               tags |-> Some(tagResult.data),
               recurrence |-> recurrenceResult.data,
               dependencies |-> Some(depsResult.data)]
  IN
  IF title = "" THEN Invalid("Title is required")
  ELSE IF ~isValidStatus(statusInput) THEN Invalid("Status must be one of")
  ELSE IF ~isValidPriority(priorityInput) THEN Invalid("Priority must be one of")
  ELSE IF dueDate = None THEN Invalid("Due date is required")
  ELSE IF ~isValidDueDateISO(Value(dueDate)) THEN Invalid("Due date is invalid")
  ELSE IF ~tagResult.success THEN tagResult
  ELSE IF ~recurrenceResult.success THEN recurrenceResult
  ELSE IF ~depsResult.success THEN depsResult
  ELSE IF mode = "update"
    THEN IF data.id = None THEN Invalid("Task id is required for update")
         ELSE Ok([base EXCEPT !.id = data.id])
  ELSE Ok(base)

----------------------------------------------------------------------------
(* Dependency helpers *)

\* Array.prototype.findIndex, 1-based; 0 when no task has the id
findIndex(tasks, id) ==
  IF \E i \in 1..Len(tasks) : tasks[i].id = id
  THEN CHOOSE i \in 1..Len(tasks) :
         /\ tasks[i].id = id
         /\ \A j \in 1..(i - 1) : tasks[j].id # id
  ELSE 0

\* faulty variant: every stored task counts as completed
completedIds_AnyStatus(tasks) == {tasks[i].id : i \in 1..Len(tasks)}

completedIds(tasks) == {tasks[i].id : i \in {j \in 1..Len(tasks) : tasks[j].status = "done"}}

\* faulty variant: a dependency id that names no task is taken as satisfied
areDependenciesSatisfied_IgnoreMissing(taskId, tasks) ==
  LET index == findIndex(tasks, taskId) IN
  IF index = 0 THEN TRUE
  ELSE \A d \in 1..Len(tasks[index].dependencies) :
         \/ findIndex(tasks, tasks[index].dependencies[d]) = 0
         \/ tasks[index].dependencies[d] \in {tasks[i].id : i \in {j \in 1..Len(tasks) : tasks[j].status = "done"}}

\* faulty variant: a dependency of a task on itself is taken as satisfied
areDependenciesSatisfied_SkipSelf(taskId, tasks) ==
  LET index == findIndex(tasks, taskId) IN
  IF index = 0 \/ Len(tasks[index].dependencies) = 0 THEN TRUE
  ELSE \A d \in 1..Len(tasks[index].dependencies) :
         \/ tasks[index].dependencies[d] = taskId
         \/ tasks[index].dependencies[d] \in completedIds(tasks)

areDependenciesSatisfied(taskId, tasks) ==
  LET index == findIndex(tasks, taskId) IN
  IF index = 0 \/ Len(tasks[index].dependencies) = 0 THEN TRUE
  ELSE \A d \in 1..Len(tasks[index].dependencies) :
         tasks[index].dependencies[d] \in completedIds(tasks)

\* faulty variant: the task itself is not counted among its dependents
RECURSIVE getDependentTasks_OthersOnly(_, _)
getDependentTasks_OthersOnly(taskId, tasks) ==
  IF tasks = <<>> THEN <<>>
  ELSE (IF taskId \in Range(Head(tasks).dependencies) /\ Head(tasks).id # taskId
        THEN <<Head(tasks).id>> ELSE <<>>)
       \o getDependentTasks_OthersOnly(taskId, Tail(tasks))

RECURSIVE getDependentTasks(_, _)
getDependentTasks(taskId, tasks) ==
  IF tasks = <<>> THEN <<>>
  ELSE (IF taskId \in Range(Head(tasks).dependencies) THEN <<Head(tasks).id>> ELSE <<>>)
       \o getDependentTasks(taskId, Tail(tasks))

----------------------------------------------------------------------------
(* taskService: each operation as a function of its input, the collection  *)
(* that storage.getAllTasks() returned and the clock.  The result carries   *)
(* the error code ("OK" when the call returns), whether setAllTasks was     *)
(* called and the collection passed to it.                                  *)

Failure(code, message, tasks) ==
  [code |-> code, message |-> message, wrote |-> FALSE, tasks |-> tasks,
   task |-> None, canComplete |-> None, blockedBy |-> None]

Written(tasks, task) ==
  [code |-> "OK", message |-> "", wrote |-> TRUE, tasks |-> tasks,
   task |-> task, canComplete |-> None, blockedBy |-> None]

create(input, tasks, id, now) ==
  LET validation == validateTaskInput(input, "create") IN
  IF ~validation.success
  THEN Failure("VALIDATION_ERROR", validation.message, tasks)
  ELSE LET validated == validation.data
           task == [id |-> id,
                    title |-> Value(validated.title),
                    description |-> Value(validated.description),
                    status |-> Value(validated.status),
                    priority |-> Value(validated.priority),
                    dueDate |-> Value(validated.dueDate),
                    tags |-> Value(validated.tags),
                    recurrence |-> validated.recurrence,
                    dependencies |-> Coalesce(validated.dependencies, <<>>),
                    createdAt |-> now,
                    updatedAt |-> now]
       IN Written(Append(tasks, task), Some(task))

\* faulty variant: the updated task is moved to the end of the collection
update_MovesToEnd(input, tasks, now) ==
  LET validation == validateTaskInput(input, "update") IN
  IF ~validation.success
  THEN Failure("VALIDATION_ERROR", validation.message, tasks)
  ELSE LET validated == validation.data
           index == findIndex(tasks, Value(validated.id))
       IN
       IF index = 0 THEN Failure("NOT_FOUND", "Task not found", tasks)
       ELSE LET existing == tasks[index] IN
         IF /\ validated.status = Some("done")
            /\ existing.status # "done"
            /\ ~areDependenciesSatisfied(Value(validated.id), tasks)
         THEN Failure("DEPENDENCY_ERROR",
                      "Cannot complete task: dependencies not satisfied", tasks)
         ELSE LET updated ==
                    [id |-> Value(validated.id),
                     title |-> Coalesce(validated.title, existing.title),
                     description |-> Coalesce(validated.description, existing.description),
                     status |-> Coalesce(validated.status, existing.status),
                     priority |-> Coalesce(validated.priority, existing.priority),
                     dueDate |-> Coalesce(validated.dueDate, existing.dueDate),
                     tags |-> Coalesce(validated.tags, existing.tags),
                     recurrence |-> IF validated.recurrence # None
                                    THEN validated.recurrence
                                    ELSE existing.recurrence,
                     dependencies |-> Coalesce(validated.dependencies, existing.dependencies),
                     createdAt |-> existing.createdAt,
                     updatedAt |-> now]
              IN Written(Append([i \in 1..(Len(tasks) - 1) |->
                                   IF i < index THEN tasks[i] ELSE tasks[i + 1]],
                                updated),
                         Some(updated))

update(input, tasks, now) ==
  LET validation == validateTaskInput(input, "update") IN
  IF ~validation.success
  THEN Failure("VALIDATION_ERROR", validation.message, tasks)
  ELSE LET validated == validation.data
           index == findIndex(tasks, Value(validated.id))
       IN
       IF index = 0 THEN Failure("NOT_FOUND", "Task not found", tasks)
       ELSE LET existing == tasks[index] IN
         IF /\ validated.status = Some("done")
            /\ existing.status # "done"
            /\ ~areDependenciesSatisfied(Value(validated.id), tasks)
         THEN Failure("DEPENDENCY_ERROR",
                      "Cannot complete task: dependencies not satisfied", tasks)
         ELSE LET updated ==
                    [id |-> Value(validated.id),
                     title |-> Coalesce(validated.title, existing.title),
                     description |-> Coalesce(validated.description, existing.description),
                     status |-> Coalesce(validated.status, existing.status),
                     priority |-> Coalesce(validated.priority, existing.priority),
                     dueDate |-> Coalesce(validated.dueDate, existing.dueDate),
                     tags |-> Coalesce(validated.tags, existing.tags),
                     recurrence |-> IF validated.recurrence # None
                                    THEN validated.recurrence
                                    ELSE existing.recurrence,
                     dependencies |-> Coalesce(validated.dependencies, existing.dependencies),
                     createdAt |-> existing.createdAt,
                     updatedAt |-> now]
              IN Written([tasks EXCEPT ![index] = updated], Some(updated))

\* Array.prototype.splice(index, 1), 1-based
splice(tasks, index) ==
  [i \in 1..(Len(tasks) - 1) |-> IF i < index THEN tasks[i] ELSE tasks[i + 1]]

\* faulty variant: no check of the index; splice(-1, 1) removes the last task
remove_NoIndexCheck(id, tasks) ==
  LET dependents == getDependentTasks(id, tasks) IN
  IF Len(dependents) > 0
  THEN Failure("DEPENDENCY_ERROR", "Cannot delete: other tasks depend on this task", tasks)
  ELSE LET index == findIndex(tasks, id) IN
       IF tasks = <<>> THEN Written(tasks, None)
       ELSE Written(splice(tasks, IF index = 0 THEN Len(tasks) ELSE index), None)

\* faulty variant: the tasks that depend on the task are not looked for
remove_NoDependentsCheck(id, tasks) ==
  LET index == findIndex(tasks, id) IN
  IF index = 0 THEN Failure("NOT_FOUND", "Task not found", tasks)
  ELSE Written(splice(tasks, index), None)

remove(id, tasks) ==
  LET dependents == getDependentTasks(id, tasks) IN
  IF Len(dependents) > 0
  THEN Failure("DEPENDENCY_ERROR", "Cannot delete: other tasks depend on this task", tasks)
  ELSE LET index == findIndex(tasks, id) IN
       IF index = 0 THEN Failure("NOT_FOUND", "Task not found", tasks)
       ELSE Written(splice(tasks, index), None)

\* faulty variant: a dependency id that names no task blocks nothing
RECURSIVE blockedByOf_SkipMissing(_, _)
blockedByOf_SkipMissing(deps, tasks) ==
  IF deps = <<>> THEN <<>>
  ELSE LET depId == Head(deps)
           depIndex == findIndex(tasks, depId)
       IN (IF depIndex # 0 /\ tasks[depIndex].status # "done"
           THEN <<tasks[depIndex].title>> ELSE <<>>)
          \o blockedByOf_SkipMissing(Tail(deps), tasks)

RECURSIVE blockedByOf(_, _)
blockedByOf(deps, tasks) ==
  IF deps = <<>> THEN <<>>
  ELSE LET depId == Head(deps)
           depIndex == findIndex(tasks, depId)
       IN (IF depId \in completedIds(tasks) THEN <<>>
           ELSE IF depIndex # 0 THEN <<tasks[depIndex].title>>
           ELSE <<depId>>)
          \o blockedByOf(Tail(deps), tasks)

Answer(tasks, canComplete, blockedBy) ==
  [code |-> "OK", message |-> "", wrote |-> FALSE, tasks |-> tasks,
   task |-> None, canComplete |-> Some(canComplete), blockedBy |-> blockedBy]

\* faulty variant: a dependency of the task on itself blocks nothing
canCompleteTask_SkipSelf(taskId, tasks) ==
  LET index == findIndex(tasks, taskId) IN
  IF index = 0 THEN Answer(tasks, FALSE, None)
  ELSE IF tasks[index].status = "done" THEN Answer(tasks, TRUE, None)
  ELSE LET blockedBy == blockedByOf(SelectSeq(tasks[index].dependencies,
                                              LAMBDA depId : depId # taskId), tasks) IN
       Answer(tasks, Len(blockedBy) = 0,
              IF Len(blockedBy) > 0 THEN Some(blockedBy) ELSE None)

canCompleteTask(taskId, tasks) ==
  LET index == findIndex(tasks, taskId) IN
  IF index = 0 THEN Answer(tasks, FALSE, None)
  ELSE IF tasks[index].status = "done" THEN Answer(tasks, TRUE, None)
  ELSE LET blockedBy == blockedByOf(tasks[index].dependencies, tasks) IN
       Answer(tasks, Len(blockedBy) = 0,
              IF Len(blockedBy) > 0 THEN Some(blockedBy) ELSE None)

----------------------------------------------------------------------------
(* Inputs of the calls *)

\* the ids handed out so far: the ids a caller can name
IssuedIds == {generateId(n) : n \in 1..(nextId - 1)}

NoInput ==
  [id |-> None, title |-> None, description |-> None, status |-> None,
   priority |-> None, dueDate |-> None, tags |-> None, recurrence |-> None,
   dependencies |-> None]

Daily == [frequency |-> Some("daily"), daysInterval |-> None, endDate |-> None]

TitleInputs == {None, Some("A")}
DueDateInputs == {None, Some(1)}
StatusInputs == {None, Some("in-progress"), Some("done")}
RecurrenceInputs == {None, Some(JsNull), Some(Daily)}

\* position of an id in the order the ids were handed out
IssueOrder(id) == CHOOSE n \in 1..Len(GenIds) : GenIds[n] = id

\* no dependencies field, an empty array, one id, the same id twice, or two ids
\* (in the order they were handed out)
DependenciesInputs ==
  {None, Some(<<>>)}
    \cup {Some(<<a>>) : a \in IssuedIds}
    \cup {Some(<<p[1], p[2]>>) :
            p \in {q \in IssuedIds \X IssuedIds : IssueOrder(q[1]) <= IssueOrder(q[2])}}

\* inputs without title or without due date: nothing but, possibly, one of the
\* two and the status done
BareInputs ==
  {[NoInput EXCEPT !.title = t, !.dueDate = due, !.status = s] :
     t \in TitleInputs, due \in DueDateInputs, s \in {None, Some("done")}}
  \ {[NoInput EXCEPT !.title = Some("A"), !.dueDate = Some(1), !.status = s] :
       s \in {None, Some("done")}}

\* inputs about the dependency gate: title, due date, status and dependencies
GateInputs ==
  BareInputs \cup
  {[NoInput EXCEPT !.title = Some("A"), !.dueDate = Some(1), !.status = s,
                   !.dependencies = deps] :
     s \in StatusInputs, deps \in DependenciesInputs}

\* inputs about the merge of fields: title and due date given, no dependencies;
\* of description, status, priority and tags all are given, or all but one, or none
Given == [description |-> Some("d"), status |-> Some("done"),
          priority |-> Some("high"), tags |-> Some(<<"x">>)]

Omissions ==
  {{}, DOMAIN Given} \cup {{f} : f \in DOMAIN Given}

FieldInputs ==
  {[NoInput EXCEPT !.title = Some("A"), !.dueDate = Some(1),
                   !.description = IF "description" \in o THEN None ELSE Given.description,
                   !.status = IF "status" \in o THEN None ELSE Given.status,
                   !.priority = IF "priority" \in o THEN None ELSE Given.priority,
                   !.tags = IF "tags" \in o THEN None ELSE Given.tags,
                   !.recurrence = r] :
     o \in Omissions, r \in RecurrenceInputs}

----------------------------------------------------------------------------
(* The engine used by one caller at a time: every call runs to completion  *)
(* (read, decide, write) before the next one starts.                        *)

Call(op, input, result) ==
  [op |-> op, input |-> input, before |-> storage, code |-> result.code,
   message |-> result.message, wrote |-> result.wrote, task |-> result.task,
   canComplete |-> result.canComplete, blockedBy |-> result.blockedBy]

Finish(op, input, result) ==
  /\ last' = Call(op, input, result)
  /\ storage' = IF result.wrote THEN result.tasks ELSE storage
  /\ clock' = IF result.wrote /\ op # "remove" THEN clock + 1 ELSE clock
  /\ UNCHANGED <<calls, probe>>

\* no call made yet
NoCall == Call("none", NoInput, Failure("OK", "", <<>>))

\* the callers that share the engine, none of them in a call
Callers == {"p", "q"}
Idle ==
  [pc |-> "idle", op |-> "none", input |-> NoInput, id |-> None, now |-> 0,
   before |-> <<>>, after |-> <<>>, pending |-> None, task |-> None,
   listed |-> None, error |-> None, fault |-> "none",
   reads |-> 0, writes |-> 0, readAt |-> 0, wroteAt |-> 0]
NoCalls == [c \in Callers |-> Idle]

\* no read-only operation called yet
NoProbe == [op |-> "none"]

Init ==
  /\ storage = <<>>
  /\ nextId = 1
  /\ clock = 0
  /\ last = NoCall
  /\ calls = NoCalls
  /\ probe = NoProbe

Create(input) ==
  /\ nextId <= MaxTasks
  /\ clock < MaxClock
  /\ LET result == create(input, storage, generateId(nextId), clock) IN
     /\ Finish("create", input, result)
     /\ nextId' = IF result.wrote THEN nextId + 1 ELSE nextId

Update(input) ==
  /\ clock < MaxClock
  /\ Finish("update", input, update(input, storage, clock))
  /\ UNCHANGED nextId

Remove(id) ==
  /\ Finish("remove", [NoInput EXCEPT !.id = Some(id)], remove(id, storage))
  /\ UNCHANGED nextId

CanCompleteTask(id) ==
  /\ Finish("canCompleteTask", [NoInput EXCEPT !.id = Some(id)], canCompleteTask(id, storage))
  /\ UNCHANGED nextId

\* the id field of an update input: absent, or an id handed out before
IdInputs == {None} \cup {Some(k) : k \in IssuedIds}

Next ==
  \/ \E input \in GateInputs : Create(input)
  \/ \E input \in GateInputs, id \in IdInputs : Update([input EXCEPT !.id = id])
  \/ \E id \in IssuedIds : Remove(id)
  \/ \E id \in IssuedIds : CanCompleteTask(id)

Spec == Init /\ [][Next]_vars

\* the same engine, called with the inputs about the merge of fields
NextFields ==
  \/ \E input \in FieldInputs : Create(input)
  \/ \E input \in FieldInputs, id \in IdInputs : Update([input EXCEPT !.id = id])
  \/ \E id \in IssuedIds : Remove(id)
  \/ \E id \in IssuedIds : CanCompleteTask(id)

SpecFields == Init /\ [][NextFields]_vars

----------------------------------------------------------------------------
(* The last call, seen from the collection it read *)

\* the id the last call names
LastId == Value(last.input.id)

\* position in the collection read by the last call of the task it names (0: none)
LastIndex == IF IsSome(last.input.id) THEN findIndex(last.before, LastId) ELSE 0

\* the task named by the last call, as stored before the call
LastTask == last.before[LastIndex]

\* the last call was an update whose input passes validation
ValidUpdate == last.op = "update" /\ validateTaskInput(last.input, "update").success

\* id d names a task of the collection whose status is done
NamesDone(d, tasks) ==
  \E j \in 1..Len(tasks) : tasks[j].id = d /\ tasks[j].status = "done"

\* id d names no task of the collection
NamesNone(d, tasks) == \A j \in 1..Len(tasks) : tasks[j].id # d

\* the call failed with the code and wrote nothing
FailedWith(code) == last.code = code /\ ~last.wrote /\ storage = last.before

----------------------------------------------------------------------------
(* Claims *)

\* C1: an update with valid input and status done, of a stored task that is not
\* done and has a stored dependency that names no done task, fails with
\* DEPENDENCY_ERROR and leaves the persisted collection unchanged.
C1_UpdateToDoneIsGated ==
  (/\ ValidUpdate
   /\ last.input.status = Some("done")
   /\ LastIndex # 0
   /\ LastTask.status # "done"
   /\ \E d \in Range(LastTask.dependencies) : ~NamesDone(d, last.before))
  => FailedWith("DEPENDENCY_ERROR")

C1_Witness ==
  /\ ValidUpdate
  /\ last.input.status = Some("done")
  /\ LastIndex # 0
  /\ LastTask.status = "in-progress"
  /\ \E d \in Range(LastTask.dependencies) : ~NamesDone(d, last.before)
  /\ FailedWith("DEPENDENCY_ERROR")

\* C2: after a successful update that moves a task from a non-done status to done,
\* every id in the dependencies persisted for the task names a stored task whose
\* status is done.
C2_DoneOnlyWithDoneDependencies ==
  (/\ last.op = "update"
   /\ last.code = "OK"
   /\ LastTask.status # "done"
   /\ storage[LastIndex].status = "done")
  => \A d \in Range(storage[LastIndex].dependencies) : NamesDone(d, storage)

C4_RemoveSucceedsWithoutOtherDependents ==
  (/\ last.op = "remove"
   /\ LastIndex # 0
   /\ \A i \in 1..Len(last.before) :
        last.before[i].id # LastId => LastId \notin Range(last.before[i].dependencies))
  => /\ last.code = "OK"
     /\ storage = splice(last.before, LastIndex)

\* C5 as stated: remove(id) fails with NOT_FOUND and leaves the collection
\* unchanged whenever no stored task has that id, whatever the stored dependencies.
C5_RemoveOfAbsentIsNotFound ==
  (last.op = "remove" /\ LastIndex = 0) => FailedWith("NOT_FOUND")

\* C5 as amended: remove(id) fails with NOT_FOUND and leaves the collection
\* unchanged whenever no stored task has that id and no stored task lists it in
\* its dependencies; when some task lists it the call fails with DEPENDENCY_ERROR.
C5_RemoveOfAbsentUnlistedIsNotFound ==
  (last.op = "remove" /\ LastIndex = 0)
  => IF \E i \in 1..Len(last.before) : LastId \in Range(last.before[i].dependencies)
     THEN FailedWith("DEPENDENCY_ERROR")
     ELSE FailedWith("NOT_FOUND")

C5_Witness ==
  /\ last.op = "remove"
  /\ LastIndex = 0
  /\ Len(last.before) > 0
  /\ FailedWith("NOT_FOUND")

\* C6: a dependency id that names no stored task is unsatisfied: for a task T that
\* is not done and lists such an id, canCompleteTask(T.id) answers canComplete =
\* false with the raw id in blockedBy, and a valid update of T to done fails with
\* DEPENDENCY_ERROR.
C6_DanglingDependencyUnsatisfied ==
  \A d \in (IF LastIndex # 0 /\ LastTask.status # "done"
            THEN {x \in Range(LastTask.dependencies) : NamesNone(x, last.before)}
            ELSE {}) :
    /\ last.op = "canCompleteTask"
         => /\ last.canComplete = Some(FALSE)
            /\ IsSome(last.blockedBy)
            /\ d \in Range(Value(last.blockedBy))
    /\ (ValidUpdate /\ last.input.status = Some("done"))
         => FailedWith("DEPENDENCY_ERROR")

C6_Witness ==
  /\ last.op = "canCompleteTask"
  /\ LastIndex # 0
  /\ LastTask.status # "done"
  /\ \E d \in Range(LastTask.dependencies) :
       /\ NamesNone(d, last.before)
       /\ IsSome(last.blockedBy)
       /\ d \in Range(Value(last.blockedBy))
  /\ last.canComplete = Some(FALSE)

\* C7 as stated: for every stored task T, whatever its status, canCompleteTask(T.id)
\* answers canComplete = true only if every id in T.dependencies names a done
\* task, and canComplete = false otherwise.
C7_CanCompleteIffDependenciesDone ==
  (last.op = "canCompleteTask" /\ LastIndex # 0)
  => (last.canComplete = Some(TRUE)
      <=> \A d \in Range(LastTask.dependencies) : NamesDone(d, last.before))

\* C7 as amended: for every stored task T that is not done, canCompleteTask(T.id)
\* answers canComplete = true if every id in T.dependencies names a done task and
\* canComplete = false otherwise; for a task that is done it answers true.
C7_CanCompleteIffDependenciesDoneUnlessDone ==
  (last.op = "canCompleteTask" /\ LastIndex # 0)
  => IF LastTask.status = "done"
     THEN last.canComplete = Some(TRUE)
     ELSE (last.canComplete = Some(TRUE)
           <=> \A d \in Range(LastTask.dependencies) : NamesDone(d, last.before))

C7_Witness ==
  /\ last.op = "canCompleteTask"
  /\ LastIndex # 0
  /\ LastTask.status # "done"
  /\ Cardinality(Range(LastTask.dependencies)) = 2
  /\ \A d \in Range(LastTask.dependencies) : NamesDone(d, last.before)
  /\ last.canComplete = Some(TRUE)

\* C8: after a successful update whose input omits status, priority, description,
\* tags or dependencies, the persisted task has the value it had before the call
\* for each omitted field.
C8_OmittedFieldsRetained ==
  (last.op = "update" /\ last.code = "OK")
  => /\ last.input.status = None => storage[LastIndex].status = LastTask.status
     /\ last.input.priority = None => storage[LastIndex].priority = LastTask.priority
     /\ last.input.description = None
          => storage[LastIndex].description = LastTask.description
     /\ last.input.tags = None => storage[LastIndex].tags = LastTask.tags
     /\ last.input.dependencies = None
          => storage[LastIndex].dependencies = LastTask.dependencies

\* C9: for every stored task that has a recurrence there is an update input,
\* among them the one that gives recurrence as null, that succeeds and after
\* which the persisted task has no recurrence.
C9_RecurrenceClearable ==
  \A i \in 1..Len(storage) :
    storage[i].recurrence # None
    => \E input \in FieldInputs :
         LET result == update([input EXCEPT !.id = Some(storage[i].id)], storage, clock)
         IN /\ result.code = "OK"
            /\ result.tasks[i].recurrence = None

\* C10: an update whose input carries only the task id and status done is decided
\* by the dependency gate: it fails with DEPENDENCY_ERROR while a dependency of
\* the task is not done, and succeeds, returning the task with status done, once
\* every dependency is done.
C10_IdAndStatusDecidedByGate ==
  (/\ last.op = "update"
   /\ IsSome(last.input.id)
   /\ last.input = [NoInput EXCEPT !.id = last.input.id, !.status = Some("done")]
   /\ LastIndex # 0
   /\ LastTask.status # "done"
   /\ LastTask.dependencies # <<>>)
  => IF \A d \in Range(LastTask.dependencies) : NamesDone(d, last.before)
     THEN /\ last.code = "OK"
          /\ IsSome(last.task)
          /\ Value(last.task).status = "done"
     ELSE FailedWith("DEPENDENCY_ERROR")

----------------------------------------------------------------------------
(* utilities.ts: sorting *)

\* the strings of the model in the order of String.prototype.localeCompare
Collation == <<"", " ", " x", "a", "A", "ab", "b", "B", "d", "x", "X">>

localeCompare(a, b) ==
  (CHOOSE i \in 1..Len(Collation) : Collation[i] = a)
    - (CHOOSE i \in 1..Len(Collation) : Collation[i] = b)

PRIORITY_RANK(priority) ==
  CASE priority = "high" -> 0
    [] priority = "medium" -> 1
    [] priority = "low" -> 2
    [] OTHER -> 99

statusOrder(status) ==
  CASE status = "todo" -> 0
    [] status = "in-progress" -> 1
    [] status = "done" -> 2
    [] OTHER -> 99

\* a sort configuration; the direction is an optional value
SortConfig(field, direction) == [field |-> field, direction |-> direction]

\* the comparator sortTasks hands to sort
comparator(a, b, sortConfig) ==
  LET multiplier == IF sortConfig.direction = Some("asc") THEN 1 ELSE -1
      comparison ==
        CASE sortConfig.field = "dueDate" -> a.dueDate - b.dueDate
          [] sortConfig.field = "priority" -> PRIORITY_RANK(a.priority) - PRIORITY_RANK(b.priority)
          [] sortConfig.field = "status" -> statusOrder(a.status) - statusOrder(b.status)
          [] sortConfig.field = "title" -> localeCompare(a.title, b.title)
          [] sortConfig.field = "createdAt" -> a.createdAt - b.createdAt
          [] OTHER -> 0
  IN comparison * multiplier

\* Array.prototype.sort is stable: an item goes behind every item that does
\* not compare greater than it
RECURSIVE insert(_, _, _)
insert(sorted, item, sortConfig) ==
  IF sorted = <<>> THEN <<item>>
  ELSE IF comparator(Head(sorted), item, sortConfig) <= 0
       THEN <<Head(sorted)>> \o insert(Tail(sorted), item, sortConfig)
       ELSE <<item>> \o sorted

RECURSIVE sort(_, _, _)
sort(items, sortConfig, result) ==
  IF items = <<>> THEN result
  ELSE sort(Tail(items), sortConfig, insert(result, Head(items), sortConfig))

sortTasks(tasks, sortConfig) == sort(tasks, sortConfig, <<>>)

\* taskService.list of the collection getAllTasks returned
list(tasks, sortConfig) ==
  IF IsSome(sortConfig) THEN sortTasks(tasks, Value(sortConfig))
  ELSE sortTasks(tasks, SortConfig("dueDate", Some("asc")))

----------------------------------------------------------------------------
(* storage.ts and the errors of the engine *)

AppError(message, code, details) ==
  [class |-> "AppError", message |-> message, code |-> code, details |-> details]

\* what localStorage throws when it refuses a read or a write
Thrown == [class |-> "Error", message |-> "refused", code |-> "none", details |-> None]

\* getAllTasks: a copy of the stored array
getAllTasks(stored) == stored

getAllTasksFailure ==
  AppError("Failed to read tasks from storage", "STORAGE_ERROR", Some(Thrown))

\* faulty variant: a stored task is kept when it was updated later than the
\* task written in its place
setAllTasks_KeepNewer(stored, tasks) ==
  [i \in 1..Len(tasks) |->
     IF /\ i <= Len(stored)
        /\ stored[i].id = tasks[i].id
        /\ stored[i].updatedAt > tasks[i].updatedAt
     THEN stored[i] ELSE tasks[i]]

\* faulty variant: the tasks are added to the array under the storage key
setAllTasks_Append(stored, tasks) == stored \o tasks

\* setAllTasks: the array under the storage key is replaced as a whole
setAllTasks(stored, tasks) == tasks

setAllTasksFailure ==
  AppError("Failed to save tasks to storage", "STORAGE_ERROR", Some(Thrown))

\* the catch blocks of the operations
listCatch(err) == AppError("Failed to load tasks", "STORAGE_ERROR", Some(err))

createCatch(err) == AppError("Failed to save task", "STORAGE_ERROR", Some(err))

updateCatch(err) ==
  IF err.class = "AppError" THEN err
  ELSE AppError("Failed to update task", "STORAGE_ERROR", Some(err))

removeCatch(err) ==
  IF err.class = "AppError" THEN err
  ELSE AppError("Failed to delete task", "STORAGE_ERROR", Some(err))

\* the error a call surfaces when err is thrown inside its try block
caught(op, err) ==
  CASE op = "list" -> listCatch(err)
    [] op = "create" -> createCatch(err)
    [] op = "update" -> updateCatch(err)
    [] op = "remove" -> removeCatch(err)
    [] op \in {"getById", "query"} -> listCatch(err)
    [] OTHER -> err

\* faulty variant: the input is validated only after the collection was read
awaitsStorage_Always(op, input) == TRUE

\* whether a call gets as far as storage.getAllTasks(): create and update
\* throw the validation error first
awaitsStorage(op, input) ==
  op \notin {"create", "update"} \/ validateTaskInput(input, op).success

----------------------------------------------------------------------------
(* The engine shared by several callers.  A call is suspended only inside  *)
(* storage.getAllTasks and storage.setAllTasks (await delay(0), a timer):  *)
(* what a call does between two of these points is one step.               *)

\* number of reads and writes of the storage key made so far, plus one
Stamp == 1 + calls["p"].reads + calls["p"].writes + calls["q"].reads + calls["q"].writes

\* the call starts: validation, then, in create, the clock, the new id and
\* the task; the call is suspended in getAllTasks
Begin(c, op, input) ==
  /\ calls[c].pc = "idle"
  /\ LET slot == [Idle EXCEPT !.op = op, !.input = input, !.before = storage] IN
     IF ~awaitsStorage(op, input)
     THEN /\ calls' = [calls EXCEPT ![c] =
                 [slot EXCEPT !.pc = "done", !.after = storage,
                              !.error = Some(AppError(validateTaskInput(input, op).message,
                                                      "VALIDATION_ERROR", None))]]
          /\ UNCHANGED <<nextId, clock>>
     ELSE IF op = "create"
     THEN /\ calls' = [calls EXCEPT ![c] =
                 [slot EXCEPT !.pc = "reading", !.id = Some(generateId(nextId)),
                              !.now = clock]]
          /\ nextId' = nextId + 1
          /\ clock' = clock + 1
     ELSE /\ calls' = [calls EXCEPT ![c] = [slot EXCEPT !.pc = "reading"]]
          /\ UNCHANGED <<nextId, clock>>
  /\ UNCHANGED <<storage, last, probe>>

\* faulty variant: list saves the collection in the order it returns it
Decision_ListSaves(slot, tasks) ==
  CASE slot.op = "create" -> create(slot.input, tasks, Value(slot.id), slot.now)
    [] slot.op = "update" -> update(slot.input, tasks, clock)
    [] slot.op = "remove" -> remove(Value(slot.input.id), tasks)
    [] slot.op = "list" -> Written(list(tasks, None), None)

\* what the call makes of the collection it read
Decision(slot, tasks) ==
  CASE slot.op = "create" -> create(slot.input, tasks, Value(slot.id), slot.now)
    [] slot.op = "update" -> update(slot.input, tasks, clock)
    [] slot.op = "remove" -> remove(Value(slot.input.id), tasks)
    [] slot.op = "list" -> Failure("OK", "", tasks)

\* getAllTasks reads the storage key; the call goes on to the point where it
\* returns, throws or is suspended in setAllTasks
Read(c) ==
  /\ calls[c].pc = "reading"
  /\ calls[c].op \in {"create", "update", "remove", "list"}
  /\ LET slot == [calls[c] EXCEPT !.reads = @ + 1, !.readAt = Stamp]
         tasks == getAllTasks(storage)
         result == Decision(slot, tasks)
     IN calls' = [calls EXCEPT ![c] =
          IF result.wrote
          THEN [slot EXCEPT !.pc = "writing", !.pending = Some(result.tasks),
                            !.task = result.task]
          ELSE [slot EXCEPT !.pc = "done", !.after = storage,
                            !.listed = IF slot.op = "list" THEN Some(list(tasks, None))
                                       ELSE None,
                            !.error = IF result.code = "OK" THEN None
                                      ELSE Some(caught(slot.op,
                                             AppError(result.message, result.code, None)))]]
  /\ clock' = IF calls[c].op = "update" THEN clock + 1 ELSE clock
  /\ UNCHANGED <<storage, nextId, last, probe>>

\* the read of the storage key throws
ReadFails(c) ==
  /\ calls[c].pc = "reading"
  /\ calls' = [calls EXCEPT ![c] =
       [@ EXCEPT !.pc = "done", !.after = storage, !.fault = "read",
                 !.reads = @ + 1, !.readAt = Stamp,
                 !.error = Some(caught(calls[c].op, getAllTasksFailure))]]
  /\ UNCHANGED <<storage, nextId, clock, last, probe>>

\* setAllTasks writes the storage key and the call returns
Write(c) ==
  /\ calls[c].pc = "writing"
  /\ storage' = setAllTasks(storage, Value(calls[c].pending))
  /\ calls' = [calls EXCEPT ![c] =
       [@ EXCEPT !.pc = "done", !.after = storage',
                 !.writes = @ + 1, !.wroteAt = Stamp]]
  /\ UNCHANGED <<nextId, clock, last, probe>>

\* the write of the storage key throws
WriteFails(c) ==
  /\ calls[c].pc = "writing"
  /\ calls' = [calls EXCEPT ![c] =
       [@ EXCEPT !.pc = "done", !.after = storage, !.fault = "write",
                 !.task = None, !.writes = @ + 1, !.wroteAt = Stamp,
                 !.error = Some(caught(calls[c].op, setAllTasksFailure))]]
  /\ UNCHANGED <<storage, nextId, clock, last, probe>>

\* the collections the callers find: the tasks were created one after the
\* other, the second one depending on the first
SeedInput(n) ==
  [NoInput EXCEPT !.title = Some("A"), !.dueDate = Some(1),
                  !.dependencies = IF n = 2 THEN Some(<<generateId(1)>>) ELSE None]

RECURSIVE Seeded(_)
Seeded(n) ==
  IF n = 0 THEN <<>>
  ELSE create(SeedInput(n), Seeded(n - 1), generateId(n), n - 1).tasks

InitAsync ==
  /\ storage \in {Seeded(n) : n \in 0..(MaxTasks - 1)}
  /\ nextId = Len(storage) + 1
  /\ clock = Len(storage)
  /\ last = NoCall
  /\ calls = NoCalls
  /\ probe = NoProbe

\* inputs of the shared engine: with or without title, with or without the
\* status done; a new task with or without a dependency
SharedUpdateInputs ==
  {[NoInput EXCEPT !.id = Some(k), !.title = t, !.dueDate = Some(1), !.status = s] :
     k \in IssuedIds, t \in {None, Some("B")}, s \in {None, Some("done")}}

SharedCreateInputs ==
  {[NoInput EXCEPT !.title = t, !.dueDate = Some(1), !.dependencies = deps] :
     t \in {None, Some("B")}, deps \in {None, Some(<<generateId(1)>>)}}

NextAsync ==
  \/ \E c \in Callers, input \in SharedCreateInputs : Begin(c, "create", input)
  \/ \E c \in Callers, input \in SharedUpdateInputs : Begin(c, "update", input)
  \/ \E c \in Callers, id \in IssuedIds : Begin(c, "remove", [NoInput EXCEPT !.id = Some(id)])
  \/ \E c \in Callers : Begin(c, "list", NoInput)
  \/ \E c \in Callers : Read(c)
  \/ \E c \in Callers : ReadFails(c)
  \/ \E c \in Callers : Write(c)
  \/ \E c \in Callers : WriteFails(c)

SpecAsync == InitAsync /\ [][NextAsync]_vars

----------------------------------------------------------------------------
(* Claims about the shared engine *)

\* the stored task with the given id, in a collection that holds it
TaskOf(tasks, id) == tasks[findIndex(tasks, id)]

\* update calls a and b on different tasks, a's write landing between b's
\* read and b's write, both having got as far as setAllTasks
Overlapped(a, b) ==
  /\ a # b
  /\ calls[a].pc = "done" /\ calls[b].pc = "done"
  /\ calls[a].op = "update" /\ calls[b].op = "update"
  /\ calls[a].input.id # calls[b].input.id
  /\ calls[a].fault = "none" /\ calls[b].fault = "none"
  /\ calls[a].writes = 1 /\ calls[b].writes = 1
  /\ calls[b].readAt < calls[a].wroteAt
  /\ calls[a].wroteAt < calls[b].wroteAt

\* C11: when two update calls on different tasks overlap so that the second
\* reads the collection before the write of the first lands, both return
\* their task, and the collection the second leaves behind holds the change
\* of the second but not the change of the first: the task of the first is
\* as it was before the first call.
C11_LostUpdate ==
  \A a \in Callers, b \in Callers :
    Overlapped(a, b) =>
      /\ calls[a].error = None /\ IsSome(calls[a].task)
      /\ calls[b].error = None /\ IsSome(calls[b].task)
      /\ TaskOf(calls[b].after, Value(calls[b].input.id)) = Value(calls[b].task)
      /\ TaskOf(calls[b].after, Value(calls[a].input.id)) # Value(calls[a].task)
      /\ TaskOf(calls[b].after, Value(calls[a].input.id))
           = TaskOf(calls[a].before, Value(calls[a].input.id))

\* two overlapped updates have returned and the change of the first is lost
C11_Witness ==
  \E a \in Callers, b \in Callers :
    /\ Overlapped(a, b)
    /\ storage = calls[b].after
    /\ TaskOf(storage, Value(calls[a].input.id)).title = "A"
    /\ Value(calls[a].task).title = "B"
    /\ TaskOf(storage, Value(calls[b].input.id)) = Value(calls[b].task)

\* C12: a create or update call whose input fails validation ends with a
\* VALIDATION_ERROR without a read or a write of the storage adapter, and
\* the stored collection when it ends is the one it started from, whatever
\* the other caller is doing.
C12_InvalidInputNeverReachesStorage ==
  \A c \in Callers :
    (/\ calls[c].pc = "done"
     /\ calls[c].op \in {"create", "update"}
     /\ ~validateTaskInput(calls[c].input, calls[c].op).success)
    => /\ IsSome(calls[c].error)
       /\ Value(calls[c].error).code = "VALIDATION_ERROR"
       /\ calls[c].reads = 0 /\ calls[c].writes = 0
       /\ calls[c].after = calls[c].before

\* an update without title was rejected while the other caller's write was
\* pending, and that write has landed since
C12_Witness ==
  \E c \in Callers, d \in Callers :
    /\ c # d
    /\ calls[c].pc = "done" /\ calls[c].op = "update"
    /\ calls[c].input.title = None
    /\ Value(calls[c].error).code = "VALIDATION_ERROR"
    /\ calls[d].pc = "done" /\ calls[d].writes = 1 /\ calls[d].fault = "none"
    /\ calls[d].readAt > 0 /\ calls[d].before = calls[c].before
    /\ storage # calls[c].after

\* the error of the storage adapter behind a failed call
AdapterError(slot) ==
  IF slot.fault = "read" THEN getAllTasksFailure ELSE setAllTasksFailure

\* C13: when the storage adapter throws its AppError during list, create,
\* update or remove, the call surfaces that very error, not an AppError
\* that holds it in details.
C13_AdapterErrorPassesThrough ==
  \A c \in Callers :
    (calls[c].pc = "done" /\ calls[c].fault # "none")
    => calls[c].error = Some(AdapterError(calls[c]))

----------------------------------------------------------------------------
(* taskService.query *)

\* the characters of the strings of the model
Chars(s) ==
  CASE s = "" -> <<>>
    [] s = " x" -> <<" ", "x">>
    [] s = "ab" -> <<"a", "b">>
    [] OTHER -> <<s>>

\* String.prototype.toLowerCase, character by character
LowerChars(chars) == [i \in 1..Len(chars) |-> Lower(chars[i])]

\* String.prototype.includes
includes(haystack, needle) ==
  \E i \in 0..(Len(haystack) - Len(needle)) :
    SubSeq(haystack, i + 1, i + Len(needle)) = needle

\* an optional string that is present and not empty
Truthy(o) == IsSome(o) /\ Value(o) # ""

\* a > b and a < b on the results of Date.prototype.getTime: false when
\* either is NaN
After(a, b) == a # NaD /\ b # NaD /\ a > b
Before(a, b) == a # NaD /\ b # NaD /\ a < b

NoCriteria ==
  [search |-> None, status |-> None, priority |-> None, tag |-> None,
   dueBeforeISO |-> None, dueAfterISO |-> None]

\* faulty variant: a task passes when it meets the status criterion or all
\* the others
passes_StatusOrRest(task, criteria) ==
  \/ Truthy(criteria.status) /\ task.status = Value(criteria.status)
  \/ /\ ~(Truthy(criteria.priority) /\ task.priority # Value(criteria.priority))
     /\ ~(/\ Truthy(criteria.tag) /\ Trim(Value(criteria.tag)) # ""
          /\ ~\E t \in Range(task.tags) : Lower(t) = Trim(Lower(Value(criteria.tag))))
     /\ ~(IsSome(criteria.dueBeforeISO)
          /\ After(task.dueDate, Value(criteria.dueBeforeISO)))
     /\ ~(IsSome(criteria.dueAfterISO)
          /\ Before(task.dueDate, Value(criteria.dueAfterISO)))
     /\ ~(/\ Truthy(criteria.search) /\ Trim(Value(criteria.search)) # ""
          /\ ~includes(LowerChars(Chars(task.title) \o <<"\n">> \o Chars(task.description)),
                       Chars(Trim(Lower(Value(criteria.search))))))

\* the predicate query hands to filter
passes(task, criteria) ==
  /\ ~(Truthy(criteria.status) /\ task.status # Value(criteria.status))
  /\ ~(Truthy(criteria.priority) /\ task.priority # Value(criteria.priority))
  /\ ~(/\ Truthy(criteria.tag) /\ Trim(Value(criteria.tag)) # ""
       /\ ~\E t \in Range(task.tags) : Lower(t) = Trim(Lower(Value(criteria.tag))))
  /\ ~(IsSome(criteria.dueBeforeISO)
       /\ After(task.dueDate, Value(criteria.dueBeforeISO)))
  /\ ~(IsSome(criteria.dueAfterISO)
       /\ Before(task.dueDate, Value(criteria.dueAfterISO)))
  /\ ~(/\ Truthy(criteria.search) /\ Trim(Value(criteria.search)) # ""
       /\ ~includes(LowerChars(Chars(task.title) \o <<"\n">> \o Chars(task.description)),
                    Chars(Trim(Lower(Value(criteria.search))))))

\* utilities.filter with that predicate
RECURSIVE filter(_, _)
filter(items, criteria) ==
  IF items = <<>> THEN <<>>
  ELSE (IF passes(Head(items), criteria) THEN <<Head(items)>> ELSE <<>>)
       \o filter(Tail(items), criteria)

query(criteria, sortConfig, stored) ==
  LET tasks == list(stored, None) IN
  IF criteria = None
  THEN IF IsSome(sortConfig) THEN sortTasks(tasks, Value(sortConfig)) ELSE tasks
  ELSE LET filtered == filter(tasks, Value(criteria)) IN
       IF IsSome(sortConfig) THEN sortTasks(filtered, Value(sortConfig))
       ELSE sortTasks(filtered, SortConfig("dueDate", Some("asc")))

----------------------------------------------------------------------------
(* The read-only operations list and query, called once on a collection    *)
(* that create calls left behind.                                           *)

\* number of tasks in a stored collection
MaxStored == 2

Shape(title, description, status, priority, dueDate, tags) ==
  [NoInput EXCEPT !.title = Some(title), !.description = Some(description),
                  !.status = Some(status), !.priority = Some(priority),
                  !.dueDate = Some(dueDate), !.tags = Some(tags)]

\* the inputs the stored tasks were created from
Catalogue ==
  {Shape("A", "", "todo", "high", 1, <<>>),
   Shape("A", "", "todo", "medium", 1, <<>>),
   Shape("A", "", "todo", "low", 1, <<"X">>),
   Shape("B", "", "todo", "high", 1, <<>>),
   Shape("ab", "", "in-progress", "low", 2, <<"x", "A">>),
   Shape("B", "x", "done", "low", 2, <<"x">>),
   Shape("A", "x", "done", "high", 3, <<>>)}

\* the collection after create was called with each of the inputs in turn
RECURSIVE Created(_, _)
Created(inputs, tasks) ==
  IF inputs = <<>> THEN tasks
  ELSE Created(Tail(inputs),
               create(Head(inputs), tasks, generateId(Len(tasks) + 1), Len(tasks)).tasks)

Stores(shapes) ==
  {Created(inputs, <<>>) : inputs \in UNION {[1..n -> shapes] : n \in 0..MaxStored}}

InitQuery ==
  /\ storage \in Stores(Catalogue)
  /\ nextId = Len(storage) + 1
  /\ clock = Len(storage)
  /\ last = NoCall
  /\ calls = NoCalls
  /\ probe = NoProbe

SortFields == {"dueDate", "priority", "status", "title", "createdAt"}

SortConfigs ==
  {SortConfig(field, direction) :
     field \in SortFields, direction \in {None, Some("asc"), Some("desc")}}

\* the criteria of the filter controls: absent, empty, or a value, padded
\* with a blank where the control is a text field
Criteria ==
  {[search |-> search, status |-> status, priority |-> priority, tag |-> tag,
    dueBeforeISO |-> dueBefore, dueAfterISO |-> dueAfter] :
     search \in {None, Some(""), Some("a"), Some("b"), Some(" x")},
     status \in {None, Some(""), Some("done")},
     priority \in {None, Some("low")},
     tag \in {None, Some(""), Some(" "), Some("x"), Some("X"), Some(" x")},
     dueBefore \in {None, Some(1), Some(2)},
     dueAfter \in {None, Some(2)}}

Probe(op, criteria, sortConfig, out) ==
  [op |-> op, criteria |-> criteria, sortConfig |-> sortConfig, out |-> out]

List(sortConfig) ==
  /\ probe = NoProbe
  /\ probe' = Probe("list", None, sortConfig, list(getAllTasks(storage), sortConfig))
  /\ UNCHANGED <<storage, nextId, clock, last, calls>>

Query(criteria, sortConfig) ==
  /\ probe = NoProbe
  /\ probe' = Probe("query", criteria, sortConfig,
                    query(criteria, sortConfig, getAllTasks(storage)))
  /\ UNCHANGED <<storage, nextId, clock, last, calls>>

NextQuery ==
  \/ \E sortConfig \in {None} \cup {Some(c) : c \in SortConfigs} : List(sortConfig)
  \/ \E criteria \in {None, Some(NoCriteria)}, c \in SortConfigs : Query(criteria, Some(c))
  \/ \E criteria \in {None} \cup {Some(c) : c \in Criteria} : Query(criteria, None)

SpecQuery == InitQuery /\ [][NextQuery]_vars

----------------------------------------------------------------------------
(* Claims about list and query *)

\* the result holds every stored task once
Rearranged(out, tasks) == Len(out) = Len(tasks) /\ Range(out) = Range(tasks)

\* a does not come behind b by due date, then priority rank, then title
InDefaultOrder(a, b) ==
  \/ a.dueDate < b.dueDate
  \/ /\ a.dueDate = b.dueDate
     /\ \/ PRIORITY_RANK(a.priority) < PRIORITY_RANK(b.priority)
        \/ /\ PRIORITY_RANK(a.priority) = PRIORITY_RANK(b.priority)
           /\ localeCompare(a.title, b.title) <= 0

\* C14: list() without a sort configuration returns every stored task, by
\* due date ascending, tasks of equal due date by priority rank (high, then
\* medium, then low), tasks equal on both by title, whatever the stored order.
C14_ListDefaultOrder ==
  (probe.op = "list" /\ probe.sortConfig = None)
  => /\ Rearranged(probe.out, storage)
     /\ \A i \in 1..Len(probe.out), j \in 1..Len(probe.out) :
          i < j => InDefaultOrder(probe.out[i], probe.out[j])

\* C15: query({}, {field: priority}), no direction given, returns no task
\* of lower priority before a task of higher priority: [A, B] for a high
\* task A and a low task B.
C15_PrioritySortWithoutDirection ==
  (/\ probe.op = "query"
   /\ probe.criteria = Some(NoCriteria)
   /\ probe.sortConfig = Some(SortConfig("priority", None)))
  => /\ Rearranged(probe.out, storage)
     /\ \A i \in 1..Len(probe.out), j \in 1..Len(probe.out) :
          i < j => PRIORITY_RANK(probe.out[i].priority) <= PRIORITY_RANK(probe.out[j].priority)

\* a criterion that is absent or the empty string
Unsupplied(o) == o = None \/ o = Some("")

\* the task meets each supplied criterion, the tag criterion taken as it is
Satisfies(task, criteria) ==
  /\ Unsupplied(criteria.status) \/ task.status = Value(criteria.status)
  /\ Unsupplied(criteria.priority) \/ task.priority = Value(criteria.priority)
  /\ Unsupplied(criteria.tag)
       \/ \E t \in Range(task.tags) : Lower(t) = Lower(Value(criteria.tag))
  /\ criteria.dueBeforeISO = None \/ task.dueDate <= Value(criteria.dueBeforeISO)
  /\ criteria.dueAfterISO = None \/ task.dueDate >= Value(criteria.dueAfterISO)
  /\ Unsupplied(criteria.search)
       \/ Trim(Value(criteria.search)) = ""
       \/ includes(LowerChars(Chars(task.title) \o <<"\n">> \o Chars(task.description)),
                   LowerChars(Chars(Trim(Value(criteria.search)))))

\* C16: query(criteria) returns exactly the stored tasks that meet every
\* supplied criterion: status equal, priority equal, some tag equal to the
\* tag criterion ignoring case, due date not after dueBeforeISO, not before
\* dueAfterISO, search found; an absent or empty criterion excludes nothing.
C16_QueryReturnsExactlyTheMatches ==
  (probe.op = "query" /\ IsSome(probe.criteria) /\ probe.sortConfig = None)
  => /\ Range(probe.out) = {t \in Range(storage) : Satisfies(t, Value(probe.criteria))}
     /\ Cardinality(Range(probe.out)) = Len(probe.out)

\* a criterion that is absent, empty or blank
Blank(o) == o = None \/ Trim(Value(o)) = ""

\* the same, the tag criterion taken without the blanks around it
SatisfiesTrimmed(task, criteria) ==
  /\ Unsupplied(criteria.status) \/ task.status = Value(criteria.status)
  /\ Unsupplied(criteria.priority) \/ task.priority = Value(criteria.priority)
  /\ Blank(criteria.tag)
       \/ \E t \in Range(task.tags) : Lower(t) = Lower(Trim(Value(criteria.tag)))
  /\ criteria.dueBeforeISO = None \/ task.dueDate <= Value(criteria.dueBeforeISO)
  /\ criteria.dueAfterISO = None \/ task.dueDate >= Value(criteria.dueAfterISO)
  /\ Blank(criteria.search)
       \/ includes(LowerChars(Chars(task.title) \o <<"\n">> \o Chars(task.description)),
                   LowerChars(Chars(Trim(Value(criteria.search)))))

\* C16, amended: the tag criterion is compared without the blanks around it,
\* and a tag criterion of blanks only excludes nothing.
C16_QueryReturnsExactlyTheTrimmedMatches ==
  (probe.op = "query" /\ IsSome(probe.criteria) /\ probe.sortConfig = None)
  => /\ Range(probe.out) = {t \in Range(storage) : SatisfiesTrimmed(t, Value(probe.criteria))}
     /\ Cardinality(Range(probe.out)) = Len(probe.out)

\* a query by status, tag, due date and search together kept one of two
\* stored tasks
C16_Witness ==
  /\ probe.op = "query" /\ IsSome(probe.criteria) /\ probe.sortConfig = None
  /\ Value(probe.criteria).status = Some("done")
  /\ Value(probe.criteria).tag = Some("X")
  /\ Value(probe.criteria).dueBeforeISO = Some(2)
  /\ Value(probe.criteria).dueAfterISO = Some(2)
  /\ Value(probe.criteria).search = Some(" x")
  /\ Len(storage) = 2
  /\ Len(probe.out) = 1

----------------------------------------------------------------------------
(* Number arithmetic: a positive Number is a significand of Precision bits, *)
(* the first of them 1, and an exponent; sig[i] weighs 2^(exp - i).  The    *)
(* results of / and * are rounded to the nearest Number, ties to even.      *)
(* The operands of / and the second operand of * are integers.              *)

\* bits of the significand of a Number
Precision == 53

Zeros(n) == [i \in 1..n |-> 0]

\* the binary digits of a positive integer, most significant first
RECURSIVE IntBits(_)
IntBits(n) == IF n = 0 THEN <<>> ELSE IntBits(n \div 2) \o <<n % 2>>

\* the integer with the given binary digits
RECURSIVE BitsInt(_)
BitsInt(bits) ==
  IF bits = <<>> THEN 0
  ELSE 2 * BitsInt(SubSeq(bits, 1, Len(bits) - 1)) + bits[Len(bits)]

Reverse(s) == [i \in 1..Len(s) |-> s[Len(s) + 1 - i]]

\* the bits of a plus one, from the last to the first, a carry out of the
\* first bit being dropped
RECURSIVE IncrementFrom(_, _)
IncrementFrom(a, carry) ==
  IF a = <<>> THEN <<>>
  ELSE LET s == a[Len(a)] + carry
       IN <<s % 2>> \o IncrementFrom(SubSeq(a, 1, Len(a) - 1), s \div 2)

Increment(a) == Reverse(IncrementFrom(a, 1))

\* the Number of a positive integer below 2^Precision
ToNumber(n) ==
  [sig |-> IntBits(n) \o Zeros(Precision - Len(IntBits(n))), exp |-> Len(IntBits(n))]

\* the Number nearest to the value of bits (more than Precision of them,
\* the first one 1, bits[i] weighing 2^(exp - i)), ties to even
RoundToNearest(bits, exp) ==
  LET kept == SubSeq(bits, 1, Precision)
      rest == SubSeq(bits, Precision + 1, Len(bits))
      up == /\ rest[1] = 1
            /\ \/ kept[Precision] = 1
               \/ \E i \in 2..Len(rest) : rest[i] = 1
  IN IF ~up THEN [sig |-> kept, exp |-> exp]
     ELSE IF \A i \in 1..Precision : kept[i] = 1
     THEN [sig |-> <<1>> \o Zeros(Precision - 1), exp |-> exp + 1]
     ELSE [sig |-> Increment(kept), exp |-> exp]

\* the first n binary digits of r / t, for r < t
RECURSIVE QuotientBits(_, _, _)
QuotientBits(r, t, n) ==
  IF n = 0 THEN <<>>
  ELSE LET bit == IF 2 * r >= t THEN 1 ELSE 0
       IN <<bit>> \o QuotientBits(2 * r - bit * t, t, n - 1)

\* what is left of r after n digits of r / t
RECURSIVE Remainder(_, _, _)
Remainder(r, t, n) ==
  IF n = 0 \/ r = 0 THEN r
  ELSE Remainder(2 * r - (IF 2 * r >= t THEN t ELSE 0), t, n - 1)

\* the number of times a is doubled and stays below b
RECURSIVE Doublings(_, _)
Doublings(a, b) == IF 2 * a < b THEN 1 + Doublings(2 * a, b) ELSE 0

\* the number of times b is doubled until it exceeds a
RECURSIVE Halvings(_, _)
Halvings(a, b) == IF a >= b THEN 1 + Halvings(a, 2 * b) ELSE 0

RECURSIVE Pow2(_)
Pow2(n) == IF n = 0 THEN 1 ELSE 2 * Pow2(n - 1)

\* a / b for positive integers a and b
Divide(a, b) ==
  LET exp == IF a < b THEN 0 - Doublings(a, b) ELSE Halvings(a, b)
      r == IF a < b THEN a * Pow2(0 - exp) ELSE a
      t == IF a < b THEN b ELSE b * Pow2(exp)
      sticky == IF Remainder(r, t, Precision + 1) = 0 THEN 0 ELSE 1
  IN RoundToNearest(QuotientBits(r, t, Precision + 1) \o <<sticky>>, exp)

\* the binary digits of n times the integer with the given digits, from
\* the last to the first
RECURSIVE TimesFrom(_, _, _)
TimesFrom(bits, n, carry) ==
  IF bits = <<>> THEN Reverse(IntBits(carry))
  ELSE LET v == bits[Len(bits)] * n + carry
       IN <<v % 2>> \o TimesFrom(SubSeq(bits, 1, Len(bits) - 1), n, v \div 2)

TimesBits(bits, n) == Reverse(TimesFrom(bits, n, 0))

\* x * n for a Number x and a positive integer n
Multiply(x, n) ==
  LET product == TimesBits(x.sig, n)
      exp == x.exp + Len(product) - Precision
  IN IF Len(product) = Precision THEN [sig |-> product, exp |-> exp]
     ELSE RoundToNearest(product, exp)

\* Math.round of a positive Number below 2^30: the nearest integer, a half
\* going up
MathRound(x) ==
  IF x.exp < 0 THEN 0
  ELSE IF x.exp = 0 THEN 1
  ELSE BitsInt(SubSeq(x.sig, 1, x.exp)) + x.sig[x.exp + 1]

----------------------------------------------------------------------------
(* taskService.getStatistics *)

\* whether the end of the task's due day has passed on the day today
isTaskOverdue(task, today) == task.status # "done" /\ today > task.dueDate

\* Math.round((a / b) * 100) for integers a >= 0 and b > 0
Percentage(a, b) ==
  IF a = 0 THEN 0 ELSE MathRound(Multiply(Divide(a, b), 100))

getStatistics(tasks, today) ==
  LET byStatus == [s \in Range(ALLOWED_STATUS) |->
                     Cardinality({i \in 1..Len(tasks) : tasks[i].status = s})]
      byPriority == [p \in Range(ALLOWED_PRIORITY) |->
                       Cardinality({i \in 1..Len(tasks) : tasks[i].priority = p})]
      total == Len(tasks)
      completedCount == byStatus["done"]
  IN [total |-> total,
      byStatus |-> byStatus,
      byPriority |-> byPriority,
      overdue |-> Cardinality({i \in 1..Len(tasks) : isTaskOverdue(tasks[i], today)}),
      completionRate |-> IF total > 0 THEN Percentage(completedCount, total) ELSE 0,
      completedCount |-> completedCount,
      pendingCount |-> byStatus["todo"],
      inProgressCount |-> byStatus["in-progress"]]

----------------------------------------------------------------------------
(* getStatistics called once on a collection of done, in-progress and todo *)
(* tasks that create calls left behind.                                     *)

\* number of tasks in a counted collection
MaxCounted == 40

\* the inputs of the create calls: the done tasks first, then the tasks in
\* progress, then the others
CountedInputs(done, inProgress, todo) ==
  [i \in 1..(done + inProgress + todo) |->
     Shape("A", "", IF i <= done THEN "done"
                    ELSE IF i <= done + inProgress THEN "in-progress" ELSE "todo",
           ALLOWED_PRIORITY[1 + (i % Len(ALLOWED_PRIORITY))], 1, <<>>)]

InitStats ==
  /\ \E total \in 0..MaxCounted :
       \E done \in 0..total :
         \E inProgress \in {0, total - done} :
           storage = Created(CountedInputs(done, inProgress, total - done - inProgress), <<>>)
  /\ nextId = Len(storage) + 1
  /\ clock = Len(storage)
  /\ last = NoCall
  /\ calls = NoCalls
  /\ probe = NoProbe

GetStatistics(today) ==
  /\ probe = NoProbe
  /\ probe' = [op |-> "getStatistics", today |-> today,
               out |-> getStatistics(getAllTasks(storage), today)]
  /\ UNCHANGED <<storage, nextId, clock, last, calls>>

NextStats == \E today \in {1, 2} : GetStatistics(today)

SpecStats == InitStats /\ [][NextStats]_vars

\* the integer nearest to n / d, a half going up
Rounded(n, d) == (2 * n + d) \div (2 * d)

\* C17: the three counts by status add up to total, which is the number of
\* stored tasks, and completionRate is 100 * done / total rounded to the
\* nearest integer, 0 when there is no task, and within 0..100.
C17_StatisticsTotalsAndRate ==
  probe.op = "getStatistics"
  => /\ probe.out.byStatus["todo"] + probe.out.byStatus["in-progress"]
          + probe.out.byStatus["done"] = probe.out.total
     /\ probe.out.total = Len(storage)
     /\ probe.out.completionRate \in 0..100
     /\ probe.out.completionRate =
          IF probe.out.total = 0 THEN 0
          ELSE Rounded(100 * probe.out.byStatus["done"], probe.out.total)

----------------------------------------------------------------------------
(* Dates: a Date is the number of its day, day 1 being 1 January of the    *)
(* year EpochYear, in the time zone of the caller; the time of day, which  *)
(* setDate and setMonth keep, is left out.                                  *)

EpochYear == 2026

isLeapYear(y) == (y % 4 = 0 /\ y % 100 # 0) \/ y % 400 = 0

daysInYear(y) == IF isLeapYear(y) THEN 366 ELSE 365

\* month from 1 to 12
daysInMonth(y, m) ==
  CASE m = 2 -> IF isLeapYear(y) THEN 29 ELSE 28
    [] m \in {4, 6, 9, 11} -> 30
    [] OTHER -> 31

RECURSIVE daysBeforeYear(_)
daysBeforeYear(y) ==
  IF y <= EpochYear THEN 0 ELSE daysInYear(y - 1) + daysBeforeYear(y - 1)

RECURSIVE daysBeforeMonth(_, _)
daysBeforeMonth(y, m) ==
  IF m <= 1 THEN 0 ELSE daysInMonth(y, m - 1) + daysBeforeMonth(y, m - 1)

\* the day of the given year, month (from 1, months beyond 12 running into
\* the next years) and day of the month (days beyond the end of the month
\* running into the next months)
MakeDay(y, m, d) ==
  LET year == y + ((m - 1) \div 12)
      month == 1 + ((m - 1) % 12)
  IN daysBeforeYear(year) + daysBeforeMonth(year, month) + d

RECURSIVE yearFrom(_, _)
yearFrom(day, y) ==
  IF day <= daysBeforeYear(y + 1) THEN y ELSE yearFrom(day, y + 1)

RECURSIVE monthFrom(_, _, _)
monthFrom(day, y, m) ==
  IF day <= daysBeforeYear(y) + daysBeforeMonth(y, m + 1) THEN m
  ELSE monthFrom(day, y, m + 1)

getFullYear(day) == yearFrom(day, EpochYear)

\* as Date.prototype.getMonth, from 0 to 11
getMonth(day) == monthFrom(day, getFullYear(day), 1) - 1

getDate(day) == day - MakeDay(getFullYear(day), getMonth(day) + 1, 0)

setDate(day, date) == MakeDay(getFullYear(day), getMonth(day) + 1, date)

setMonth(day, month) == MakeDay(getFullYear(day), month + 1, getDate(day))

----------------------------------------------------------------------------
(* Recurrence *)

\* faulty variant: the recurrence ends only when the due date is after the
\* end date
calculateNextOccurrence_EndsAfter(task) ==
  IF task.recurrence = None THEN None
  ELSE LET rec == Value(task.recurrence)
           lastDue == task.dueDate
       IN
       IF IsSome(rec.endDate) /\ Value(rec.endDate) # NaD /\ lastDue > Value(rec.endDate)
       THEN None
       ELSE CASE rec.frequency = Some("daily") -> Some(setDate(lastDue, getDate(lastDue) + 1))
              [] rec.frequency = Some("weekly") -> Some(setDate(lastDue, getDate(lastDue) + 7))
              [] rec.frequency = Some("monthly") -> Some(setMonth(lastDue, getMonth(lastDue) + 1))
              [] rec.frequency = Some("custom") ->
                   Some(setDate(lastDue, getDate(lastDue) + Value(rec.daysInterval)))
              [] OTHER -> None

\* the next due date of the task, None standing for null
calculateNextOccurrence(task) ==
  IF task.recurrence = None THEN None
  ELSE LET rec == Value(task.recurrence)
           lastDue == task.dueDate
       IN
       IF IsSome(rec.endDate) /\ Value(rec.endDate) # NaD /\ lastDue >= Value(rec.endDate)
       THEN None
       ELSE CASE rec.frequency = Some("daily") -> Some(setDate(lastDue, getDate(lastDue) + 1))
              [] rec.frequency = Some("weekly") -> Some(setDate(lastDue, getDate(lastDue) + 7))
              [] rec.frequency = Some("monthly") -> Some(setMonth(lastDue, getMonth(lastDue) + 1))
              [] rec.frequency = Some("custom") ->
                   Some(setDate(lastDue, getDate(lastDue) + Value(rec.daysInterval)))
              [] OTHER -> None

\* the tasks getUpcomingRecurring looks at, each with its next occurrence,
\* in stored order
RECURSIVE withNextOccurrence(_, _)
withNextOccurrence(tasks, today) ==
  IF tasks = <<>> THEN <<>>
  ELSE LET task == Head(tasks)
           nextOccurrence == calculateNextOccurrence(task)
       IN (IF task.recurrence # None /\ task.status # "done" /\ IsSome(nextOccurrence)
           THEN <<[task |-> task, nextOccurrence |-> Value(nextOccurrence),
                   daysUntilNext |-> Value(nextOccurrence) - today]>>
           ELSE <<>>)
          \o withNextOccurrence(Tail(tasks), today)

\* Array.prototype.sort by next occurrence (stable)
RECURSIVE insertByNext(_, _)
insertByNext(sorted, item) ==
  IF sorted = <<>> THEN <<item>>
  ELSE IF Head(sorted).nextOccurrence - item.nextOccurrence <= 0
       THEN <<Head(sorted)>> \o insertByNext(Tail(sorted), item)
       ELSE <<item>> \o sorted

RECURSIVE sortByNext(_, _)
sortByNext(items, result) ==
  IF items = <<>> THEN result
  ELSE sortByNext(Tail(items), insertByNext(result, Head(items)))

\* Array.prototype.slice(0, end)
slice(items, end) ==
  LET len == Len(items)
      final == IF end < 0 THEN (IF len + end < 0 THEN 0 ELSE len + end)
               ELSE (IF end < len THEN end ELSE len)
  IN SubSeq(items, 1, final)

\* the limit of getUpcomingRecurring when none is given
DefaultLimit == 5

\* faulty variant: the list is cut to the limit before it is sorted
getUpcomingRecurring_CutFirst(tasks, limit, today) ==
  sortByNext(slice(withNextOccurrence(tasks, today), Coalesce(limit, DefaultLimit)), <<>>)

getUpcomingRecurring(tasks, limit, today) ==
  slice(sortByNext(withNextOccurrence(tasks, today), <<>>), Coalesce(limit, DefaultLimit))

----------------------------------------------------------------------------
(* calculateNextOccurrence and getUpcomingRecurring, called once on a       *)
(* collection that create calls left behind.                                *)

\* the largest limit a caller gives
MaxLimit == 2

Recurrence(frequency, daysInterval, endDate) ==
  [frequency |-> Some(frequency), daysInterval |-> daysInterval, endDate |-> endDate]

Recurring(dueDate, status, recurrence) ==
  [NoInput EXCEPT !.title = Some("A"), !.dueDate = Some(dueDate),
                  !.status = Some(status), !.recurrence = recurrence]

\* the interval of the custom recurrences
Interval(frequency) == IF frequency = "custom" THEN Some(3) ELSE None

MidMay == MakeDay(EpochYear, 5, 15)

\* monthly tasks due at the end and in the middle of a month; tasks of each
\* frequency whose recurrence ends before, on or after the due date, or due
\* on the last day of the year; a recurring task that is done; a task that
\* does not recur
RecurringCatalogue ==
  {Recurring(MakeDay(EpochYear, m, d), "todo", Some(Recurrence("monthly", None, None))) :
     m \in {1, 3, 5, 12}, d \in {15, 28, 31}}
  \cup {Recurring(MidMay, "todo", Some(Recurrence(f, Interval(f), Some(MidMay + k)))) :
          f \in Range(ALLOWED_RECURRENCE_FREQUENCY), k \in {-1, 0, 40}}
  \cup {Recurring(MakeDay(EpochYear, 12, 31), "in-progress",
                  Some(Recurrence(f, Interval(f), None))) :
          f \in Range(ALLOWED_RECURRENCE_FREQUENCY)}
  \cup {Recurring(MidMay, "done", Some(Recurrence("daily", None, None))),
        Recurring(MidMay, "todo", None)}

InitRecurring ==
  /\ storage \in Stores(RecurringCatalogue)
  /\ nextId = Len(storage) + 1
  /\ clock = Len(storage)
  /\ last = NoCall
  /\ calls = NoCalls
  /\ probe = NoProbe

CalculateNextOccurrence(index) ==
  /\ probe = NoProbe
  /\ probe' = [op |-> "calculateNextOccurrence", task |-> storage[index],
               out |-> calculateNextOccurrence(storage[index])]
  /\ UNCHANGED <<storage, nextId, clock, last, calls>>

GetUpcomingRecurring(limit, today) ==
  /\ probe = NoProbe
  /\ probe' = [op |-> "getUpcomingRecurring", limit |-> limit, today |-> today,
               out |-> getUpcomingRecurring(getAllTasks(storage), limit, today)]
  /\ UNCHANGED <<storage, nextId, clock, last, calls>>

NextRecurring ==
  \/ \E index \in 1..Len(storage) : CalculateNextOccurrence(index)
  \/ \E limit \in {None} \cup {Some(n) : n \in 0..MaxLimit} :
       GetUpcomingRecurring(limit, MidMay)

SpecRecurring == InitRecurring /\ [][NextRecurring]_vars

----------------------------------------------------------------------------
(* Claims about recurrence *)

\* the recurrence of the task has an end date and the task is due on or
\* after it
Ended(task) ==
  /\ task.recurrence # None
  /\ IsSome(Value(task.recurrence).endDate)
  /\ task.dueDate >= Value(Value(task.recurrence).endDate)

\* C18: calculateNextOccurrence returns null for a task whose recurrence has
\* an end date on or before the task's due date, whatever the frequency,
\* and getUpcomingRecurring lists no such task.
C18_NoOccurrenceFromTheEndDateOn ==
  /\ (probe.op = "calculateNextOccurrence" /\ Ended(probe.task)) => probe.out = None
  /\ probe.op = "getUpcomingRecurring"
       => \A i \in 1..Len(probe.out) : ~Ended(probe.out[i].task)

\* a task with a custom recurrence, due on the very day the recurrence ends,
\* was asked for its next occurrence
C18_Witness ==
  /\ probe.op = "calculateNextOccurrence"
  /\ Ended(probe.task)
  /\ Value(probe.task.recurrence).frequency = Some("custom")
  /\ probe.task.dueDate = Value(Value(probe.task.recurrence).endDate)
  /\ probe.out = None

\* C19: the next occurrence of a monthly task falls in the month after the
\* month of its due date, on the same day of the month, or on the last day
\* of that month when it has no such day.
C19_MonthlyClampsToMonthEnd ==
  (/\ probe.op = "calculateNextOccurrence"
   /\ probe.task.recurrence # None
   /\ Value(probe.task.recurrence).frequency = Some("monthly")
   /\ IsSome(probe.out))
  => LET due == probe.task.dueDate
         next == Value(probe.out)
         first == MakeDay(getFullYear(due), getMonth(due) + 2, 1)
         length == daysInMonth(getFullYear(first), getMonth(first) + 1)
     IN /\ getFullYear(next) = getFullYear(first)
        /\ getMonth(next) = getMonth(first)
        /\ getDate(next) = IF getDate(due) < length THEN getDate(due) ELSE length

\* the stored tasks getUpcomingRecurring has to choose from
Qualifying ==
  {t \in Range(storage) :
     t.recurrence # None /\ t.status # "done" /\ IsSome(calculateNextOccurrence(t))}

\* C20: getUpcomingRecurring(limit), limit >= 0, returns at most limit
\* entries, each for a stored recurring task that is not done and has a
\* next occurrence, in ascending order of next occurrence, and every
\* qualifying task left out is due no earlier than the entries returned:
\* the result is the first limit entries of the full ascending list.
C20_UpcomingAreTheFirstByNextOccurrence ==
  (probe.op = "getUpcomingRecurring" /\ IsSome(probe.limit))
  => LET out == probe.out
         limit == Value(probe.limit)
     IN /\ Len(out) <= limit
        /\ Len(out) = IF Cardinality(Qualifying) < limit
                      THEN Cardinality(Qualifying) ELSE limit
        /\ Cardinality({out[i].task : i \in 1..Len(out)}) = Len(out)
        /\ \A i \in 1..Len(out) :
             /\ out[i].task \in Qualifying
             /\ Some(out[i].nextOccurrence) = calculateNextOccurrence(out[i].task)
        /\ \A i \in 1..Len(out), j \in 1..Len(out) :
             i < j => out[i].nextOccurrence <= out[j].nextOccurrence
        /\ \A t \in Qualifying :
             t \notin {out[i].task : i \in 1..Len(out)}
               => \A i \in 1..Len(out) :
                    out[i].nextOccurrence <= Value(calculateNextOccurrence(t))

\* with limit 1, of two stored tasks the second, which recurs earlier, was
\* returned
C20_Witness ==
  /\ probe.op = "getUpcomingRecurring"
  /\ probe.limit = Some(1)
  /\ Len(storage) = 2
  /\ Cardinality(Qualifying) = 2
  /\ Len(probe.out) = 1
  /\ probe.out[1].task = storage[2]
  /\ IsSome(calculateNextOccurrence(storage[1]))
  /\ probe.out[1].nextOccurrence < Value(calculateNextOccurrence(storage[1]))

----------------------------------------------------------------------------
(* normalizeTags and validateTags, called once on a list of tags *)

\* longest list of tags
MaxTags == 3

\* the texts of the tags: two classes of letters, in either case, with and
\* without whitespace around them, whitespace only, and the empty string
TagTexts == {"x", "X", " x", " X", "a", "A", " ", ""}

RECURSIVE ListsOf(_, _)
ListsOf(items, n) ==
  IF n = 0 THEN {<<>>}
  ELSE ListsOf(items, n - 1)
         \cup {Append(l, t) : l \in {k \in ListsOf(items, n - 1) : Len(k) = n - 1}, t \in items}

TagLists == ListsOf(TagTexts, MaxTags)

\* normalizeTags(tags), and normalizeTags called again on what it returned
NormalizeTags(tags) ==
  /\ probe = NoProbe
  /\ probe' = [op |-> "normalizeTags", tags |-> tags, out |-> normalizeTags(tags),
               again |-> normalizeTags(normalizeTags(tags))]
  /\ UNCHANGED <<storage, nextId, clock, last, calls>>

\* validateTags(tags), which trims the tags before it normalizes them
ValidateTags(tags) ==
  /\ probe = NoProbe
  /\ LET result == validateTags(tags) IN
     probe' = [op |-> "validateTags", tags |-> tags,
               out |-> IF result.success THEN result.data ELSE <<>>,
               again |-> IF result.success THEN validateTags(result.data).data ELSE <<>>]
  /\ UNCHANGED <<storage, nextId, clock, last, calls>>

NextTags ==
  \/ \E tags \in TagLists : NormalizeTags(tags)
  \/ \E tags \in TagLists : ValidateTags(tags)

SpecTags == Init /\ [][NextTags]_vars

----------------------------------------------------------------------------
(* Claims about the tags *)

\* position of the first tag of the list that equals the tag ignoring case
\* and the whitespace around it (0: none)
FirstOfClass(tags, tag) ==
  IF \E i \in 1..Len(tags) : Lower(Trim(tags[i])) = Lower(tag)
  THEN CHOOSE i \in 1..Len(tags) :
         /\ Lower(Trim(tags[i])) = Lower(tag)
         /\ \A j \in 1..(i - 1) : Lower(Trim(tags[j])) # Lower(tag)
  ELSE 0

----------------------------------------------------------------------------
(* storage.ts: the text under the storage key.  A text is the sequence of  *)
(* its JSON tokens; a string literal, null and the text of a task object   *)
(* are one token each.                                                      *)

Token(kind, text, task) == [kind |-> kind, text |-> text, task |-> task]
Punctuation(kind) == Token(kind, "", None)
StringToken(text) == Token("string", text, None)
NullToken == Token("null", "", None)
TaskToken(task) == Token("task", "", Some(task))

\* the values JSON.parse returns
JsValue(type, text, items, members, task) ==
  [type |-> type, text |-> text, items |-> items, members |-> members, task |-> task]
JsNullValue == JsValue("null", "", <<>>, <<>>, None)
JsString(text) == JsValue("string", text, <<>>, <<>>, None)
JsArray(items) == JsValue("array", "", items, <<>>, None)
JsObject(members) == JsValue("object", "", <<>>, members, None)
JsTask(task) == JsValue("task", "", <<>>, <<>>, task)

Parsed(value, next) == [ok |-> TRUE, value |-> value, next |-> next]
SyntaxError == [ok |-> FALSE, value |-> JsNullValue, next |-> 0]

\* JSON.parse, from token i on: a literal, an array or an object
RECURSIVE parseValue(_, _), parseElements(_, _, _), parseMembers(_, _, _)
parseValue(text, i) ==
  IF i > Len(text) THEN SyntaxError
  ELSE CASE text[i].kind = "null" -> Parsed(JsNullValue, i + 1)
         [] text[i].kind = "string" -> Parsed(JsString(text[i].text), i + 1)
         [] text[i].kind = "task" -> Parsed(JsTask(text[i].task), i + 1)
         [] text[i].kind = "[" ->
              IF i + 1 <= Len(text) /\ text[i + 1].kind = "]"
              THEN Parsed(JsArray(<<>>), i + 2)
              ELSE parseElements(text, i + 1, <<>>)
         [] text[i].kind = "{" ->
              IF i + 1 <= Len(text) /\ text[i + 1].kind = "}"
              THEN Parsed(JsObject(<<>>), i + 2)
              ELSE parseMembers(text, i + 1, <<>>)
         [] OTHER -> SyntaxError

parseElements(text, i, items) ==
  LET element == parseValue(text, i) IN
  IF ~element.ok \/ element.next > Len(text) THEN SyntaxError
  ELSE IF text[element.next].kind = "]"
    THEN Parsed(JsArray(Append(items, element.value)), element.next + 1)
  ELSE IF text[element.next].kind = ","
    THEN parseElements(text, element.next + 1, Append(items, element.value))
  ELSE SyntaxError

parseMembers(text, i, members) ==
  IF i + 1 > Len(text) \/ text[i].kind # "string" \/ text[i + 1].kind # ":"
  THEN SyntaxError
  ELSE LET member == parseValue(text, i + 2) IN
    IF ~member.ok \/ member.next > Len(text) THEN SyntaxError
    ELSE IF text[member.next].kind = "}"
      THEN Parsed(JsObject(Append(members, [key |-> text[i].text, value |-> member.value])),
                  member.next + 1)
    ELSE IF text[member.next].kind = ","
      THEN parseMembers(text, member.next + 1,
                        Append(members, [key |-> text[i].text, value |-> member.value]))
    ELSE SyntaxError

\* JSON.parse(text): the whole text is one value, or a SyntaxError is thrown
JSONparse(text) ==
  LET whole == parseValue(text, 1) IN
  IF whole.ok /\ whole.next = Len(text) + 1 THEN whole ELSE SyntaxError

RECURSIVE separated(_)
separated(tokens) ==
  IF Len(tokens) <= 1 THEN tokens
  ELSE <<Head(tokens), Punctuation(",")>> \o separated(Tail(tokens))

\* JSON.stringify({ tasks })
JSONstringify(tasks) ==
  <<Punctuation("{"), StringToken("tasks"), Punctuation(":"), Punctuation("[")>>
    \o separated([i \in 1..Len(tasks) |-> TaskToken(tasks[i])])
    \o <<Punctuation("]"), Punctuation("}")>>

safeJsonParse(text, fallback) ==
  IF JSONparse(text).ok THEN JSONparse(text).value ELSE fallback

\* !value
Not(value) ==
  value.type = "null" \/ (value.type = "string" /\ value.text = "")

typeof(value) == IF value.type = "string" THEN "string" ELSE "object"

\* value[key] of a value that is not null: the member written last, or
\* undefined
Member(value, key) ==
  LET at == {i \in 1..Len(value.members) : value.members[i].key = key} IN
  IF at = {} THEN None
  ELSE Some(value.members[CHOOSE i \in at : \A j \in at : j <= i].value)

isArray(o) == IsSome(o) /\ Value(o).type = "array"

\* the content of the storage key: whether the key is there, and its text
Stored(present, text) == [present |-> present, text |-> text]

\* what readRaw returns: the tasks field of the data
StorageData(tasks) == [tasks |-> tasks]

\* faulty variant: the tasks field is returned as it was parsed
readRaw_NoArrayCheck(stored) ==
  IF ~stored.present \/ stored.text = <<>> THEN StorageData(Some(JsArray(<<>>)))
  ELSE LET parsed == safeJsonParse(stored.text,
                                   JsObject(<<[key |-> "tasks", value |-> JsArray(<<>>)]>>))
       IN IF Not(parsed) \/ typeof(parsed) # "object" THEN StorageData(Some(JsArray(<<>>)))
          ELSE StorageData(Member(parsed, "tasks"))

readRaw(stored) ==
  IF ~stored.present \/ stored.text = <<>> THEN StorageData(Some(JsArray(<<>>)))
  ELSE LET parsed == safeJsonParse(stored.text,
                                   JsObject(<<[key |-> "tasks", value |-> JsArray(<<>>)]>>))
       IN IF Not(parsed) \/ typeof(parsed) # "object" THEN StorageData(Some(JsArray(<<>>)))
          ELSE IF ~isArray(Member(parsed, "tasks")) THEN StorageData(Some(JsArray(<<>>)))
          ELSE StorageData(Member(parsed, "tasks"))

----------------------------------------------------------------------------
(* storage.getAllTasks, called once on a storage key that holds any text   *)

\* longest text that is not one written by setAllTasks
MaxText == 5

\* the tokens of those texts
Tokens ==
  {Punctuation("{"), Punctuation("}"), Punctuation("["), Punctuation("]"),
   Punctuation(":"), NullToken, StringToken("tasks")}

Prefixes(text) == {SubSeq(text, 1, n) : n \in 0..Len(text)}

\* the texts setAllTasks writes, whole or cut short, and every short text
Texts ==
  ListsOf(Tokens, MaxText)
    \cup UNION {Prefixes(JSONstringify(Seeded(n))) : n \in 0..(MaxTasks - 1)}

InitStorage ==
  /\ storage \in {Stored(FALSE, <<>>)} \cup {Stored(TRUE, text) : text \in Texts}
  /\ nextId = 1
  /\ clock = 0
  /\ last = NoCall
  /\ calls = NoCalls
  /\ probe = NoProbe

\* what data.tasks.slice() throws when data.tasks has no slice method
TypeError == [class |-> "TypeError", message |-> "slice", code |-> "none", details |-> None]

Loaded(fault, returned, error) ==
  [op |-> "getAllTasks", fault |-> fault, returned |-> returned, error |-> error]

\* getAllTasks: readRaw, then a copy of data.tasks
GetAllTasks ==
  /\ probe = NoProbe
  /\ LET data == readRaw(storage) IN
     probe' = IF IsSome(data.tasks) /\ Value(data.tasks).type \in {"array", "string"}
              THEN Loaded("none", data.tasks, None)
              ELSE Loaded("none", None,
                          Some(AppError("Failed to read tasks from storage",
                                        "STORAGE_ERROR", Some(TypeError))))
  /\ UNCHANGED <<storage, nextId, clock, last, calls>>

\* getAllTasks when localStorage.getItem throws
GetItemThrows ==
  /\ probe = NoProbe
  /\ probe' = Loaded("read", None, Some(getAllTasksFailure))
  /\ UNCHANGED <<storage, nextId, clock, last, calls>>

NextStorage ==
  \/ GetAllTasks
  \/ GetItemThrows

SpecStorage == InitStorage /\ [][NextStorage]_vars

----------------------------------------------------------------------------
(* Claims about the storage key *)

KeyMissing == ~storage.present
Unparsable == storage.present /\ ~JSONparse(storage.text).ok
NotAnObject ==
  /\ storage.present /\ JSONparse(storage.text).ok
  /\ JSONparse(storage.text).value.type \in {"null", "string"}
TasksNotAnArray ==
  /\ storage.present /\ JSONparse(storage.text).ok
  /\ JSONparse(storage.text).value.type \in {"array", "object", "task"}
  /\ LET tasks == Member(JSONparse(storage.text).value, "tasks") IN
     tasks = None \/ Value(tasks).type # "array"

\* C22: getAllTasks returns the empty list, and throws nothing, when the
\* storage key is missing, when its text is not JSON, when the parsed value
\* is not an object, and when its tasks field is not an array (the read of
\* the key itself not failing).
C22_BadContentLoadsAsEmpty ==
  (/\ probe.op = "getAllTasks" /\ probe.fault = "none"
   /\ (KeyMissing \/ Unparsable \/ NotAnObject \/ TasksNotAnArray))
  => probe.error = None /\ probe.returned = Some(JsArray(<<>>))

\* the key held {"tasks": null} and getAllTasks returned the empty list
C22_Witness ==
  /\ probe.op = "getAllTasks" /\ probe.fault = "none"
  /\ TasksNotAnArray
  /\ storage.text = <<Punctuation("{"), StringToken("tasks"), Punctuation(":"),
                      NullToken, Punctuation("}")>>
  /\ probe.error = None /\ probe.returned = Some(JsArray(<<>>))

----------------------------------------------------------------------------
(* The shared engine, each caller calling again after its call has ended   *)

\* readings of the clock after which no caller calls again
MaxAgain == 2

\* the caller's call has ended and the caller is free to make another one
Return(c) ==
  /\ calls[c].pc = "done"
  /\ clock < MaxAgain
  /\ calls' = [calls EXCEPT ![c] = Idle]
  /\ UNCHANGED <<storage, nextId, clock, last, probe>>

NextAgain ==
  \/ NextAsync
  \/ \E c \in Callers : Return(c)

\* the callers start from the empty collection
SpecAgain == Init /\ [][NextAgain]_vars

\* no two tasks of the collection have the same id
UniqueIds(tasks) ==
  \A i \in 1..Len(tasks), j \in 1..Len(tasks) : i # j => tasks[i].id # tasks[j].id

\* C23: in every persisted collection that create, update and remove calls
\* leave behind, one after the other or interleaved, no two tasks have the
\* same id (generateId returning a new id on each call); the same holds for
\* every collection a call is about to write.
C23_IdsUnique ==
  /\ UniqueIds(storage)
  /\ \A c \in Callers : IsSome(calls[c].pending) => UniqueIds(Value(calls[c].pending))

\* two tasks created one after the other are stored, and a create of the
\* other caller is about to write a third one after them
C23_Witness ==
  /\ Len(storage) = 2
  /\ storage[1].title = "B" /\ storage[2].title = "B"
  /\ \E c \in Callers :
       /\ calls[c].op = "create" /\ calls[c].pc = "writing"
       /\ Len(Value(calls[c].pending)) = 3

----------------------------------------------------------------------------
(* The read-only operations in the shared engine: list, getById, query,    *)
(* getStatistics, getUpcomingRecurring and canCompleteTask read the         *)
(* collection once and return.                                              *)

ReadOnlyOps ==
  {"list", "getById", "query", "getStatistics", "getUpcomingRecurring", "canCompleteTask"}

\* getById: the task of list() with the id, or null
getById(id, stored) ==
  LET tasks == list(stored, None)
      index == findIndex(tasks, id)
  IN IF index = 0 THEN None ELSE Some(tasks[index])

\* what the call returns on the collection it read, the day being today
returned(slot, tasks, today) ==
  CASE slot.op = "getById" -> [task |-> getById(Value(slot.input.id), tasks)]
    [] slot.op = "query" -> [tasks |-> query(slot.input, None, tasks)]
    [] slot.op = "getStatistics" -> getStatistics(tasks, today)
    [] slot.op = "getUpcomingRecurring" -> [upcoming |-> getUpcomingRecurring(tasks, slot.input, today)]
    [] slot.op = "canCompleteTask" ->
         [canComplete |-> canCompleteTask(Value(slot.input.id), tasks).canComplete,
          blockedBy |-> canCompleteTask(Value(slot.input.id), tasks).blockedBy]

\* getAllTasks reads the storage key and the call returns
ReadOnly(c) ==
  /\ calls[c].pc = "reading"
  /\ calls[c].op \in ReadOnlyOps \ {"list"}
  /\ calls' = [calls EXCEPT ![c] =
       [@ EXCEPT !.pc = "done", !.after = storage, !.reads = @ + 1, !.readAt = Stamp,
                 !.listed = Some(returned(calls[c], getAllTasks(storage), clock))]]
  /\ UNCHANGED <<storage, nextId, clock, last, probe>>

\* the criteria of a query: none, empty, or the status done
ReaderCriteria ==
  {None, Some(NoCriteria), Some([NoCriteria EXCEPT !.status = Some("done")])}

NextReaders ==
  \/ NextAsync
  \/ \E c \in Callers, id \in IssuedIds : Begin(c, "getById", [NoInput EXCEPT !.id = Some(id)])
  \/ \E c \in Callers, criteria \in ReaderCriteria : Begin(c, "query", criteria)
  \/ \E c \in Callers : Begin(c, "getStatistics", NoInput)
  \/ \E c \in Callers, limit \in {None, Some(1)} : Begin(c, "getUpcomingRecurring", limit)
  \/ \E c \in Callers, id \in IssuedIds :
       Begin(c, "canCompleteTask", [NoInput EXCEPT !.id = Some(id)])
  \/ \E c \in Callers : ReadOnly(c)

SpecReaders == InitAsync /\ [][NextReaders]_vars

----------------------------------------------------------------------------
(* Claims about the read-only operations *)

\* C24: a call of list, getById, query, getStatistics, getUpcomingRecurring
\* or canCompleteTask never gets to setAllTasks, whether it returns or
\* throws, and no step of such a call changes the persisted collection.
C24_ReadOnlyCallsNeverWrite ==
  /\ [](\A c \in Callers :
          calls[c].op \in ReadOnlyOps =>
            calls[c].pc # "writing" /\ calls[c].writes = 0 /\ calls[c].pending = None)
  /\ [][\A c \in Callers :
          (calls'[c] # calls[c] /\ calls'[c].op \in ReadOnlyOps) => storage' = storage]_vars

\* on a collection of two tasks a query has returned and a canCompleteTask
\* has thrown the error of the storage adapter; the collection is as it was
C24_Witness ==
  \E c \in Callers, d \in Callers :
    /\ calls[c].op = "query" /\ calls[c].pc = "done" /\ calls[c].error = None
    /\ IsSome(calls[c].listed) /\ Len(Value(calls[c].listed).tasks) = 2
    /\ calls[d].op = "canCompleteTask" /\ calls[d].pc = "done"
    /\ calls[d].error = Some(getAllTasksFailure)
    /\ storage = calls[c].before /\ storage = calls[d].before /\ Len(storage) = 2

----------------------------------------------------------------------------
(* Claims about the frame of update *)

\* C25: after a successful update of task T the persisted collection has
\* the length and the order it had before, every task but T is as it was,
\* and T has the id and the createdAt it had.
C25_UpdateChangesOnlyItsTask ==
  (last.op = "update" /\ last.code = "OK") =>
    /\ LastIndex # 0
    /\ Len(storage) = Len(last.before)
    /\ \A i \in 1..Len(storage) : storage[i].id = last.before[i].id
    /\ \A i \in 1..Len(storage) : i # LastIndex => storage[i] = last.before[i]
    /\ storage[LastIndex].id = LastId
    /\ storage[LastIndex].createdAt = LastTask.createdAt

\* the first of two tasks was updated to done, later than it was created;
\* the task after it depends on it
C25_Witness ==
  /\ last.op = "update" /\ last.code = "OK"
  /\ Len(storage) = 2 /\ LastIndex = 1
  /\ LastTask.status # "done" /\ storage[1].status = "done"
  /\ storage[1].updatedAt > storage[1].createdAt
  /\ storage[2].dependencies = <<LastId>>

----------------------------------------------------------------------------
(* update called again and again on a collection whose tasks depend on     *)
(* each other                                                               *)

\* readings of the clock after which no update is made
MaxLater == 5

\* the first task was updated to depend on itself
SelfCycle ==
  update([SeedInput(1) EXCEPT !.id = Some(generateId(1)),
                              !.dependencies = Some(<<generateId(1)>>)],
         Seeded(1), 1).tasks

\* the first task was updated to depend on the second, which depends on it
TwoCycle ==
  update([SeedInput(1) EXCEPT !.id = Some(generateId(1)),
                              !.dependencies = Some(<<generateId(2)>>)],
         Seeded(2), 2).tasks

\* the collections the updates start from: the two above, and one without
\* a cycle; each task was written once, the first task twice
InitCycle ==
  /\ storage \in {SelfCycle, TwoCycle, Seeded(2)}
  /\ nextId = Len(storage) + 1
  /\ clock = IF storage = Seeded(2) THEN 2 ELSE Len(storage) + 1
  /\ last = NoCall
  /\ calls = NoCalls
  /\ probe = NoProbe

UpdateLater(input) ==
  /\ clock < MaxLater
  /\ Finish("update", input, update(input, storage, clock))
  /\ UNCHANGED nextId

\* the inputs of the updates: a stored task, with or without a status, and
\* without dependencies or with one
CycleInputs ==
  {[NoInput EXCEPT !.id = Some(k), !.title = Some("A"), !.dueDate = Some(1),
                   !.status = s, !.dependencies = deps] :
     k \in IssuedIds, s \in StatusInputs,
     deps \in {None} \cup {Some(<<a>>) : a \in IssuedIds}}

NextCycle == \E input \in CycleInputs : UpdateLater(input)

SpecCycle == InitCycle /\ [][NextCycle]_vars

----------------------------------------------------------------------------
(* Claims about dependency cycles *)

\* task j lists task k, neither of them done
OpenEdge(tasks, j, k) ==
  /\ tasks[j].status # "done" /\ tasks[k].status # "done"
  /\ tasks[k].id \in Range(tasks[j].dependencies)

RECURSIVE ReachableFrom(_, _, _)
ReachableFrom(tasks, found, n) ==
  IF n = 0 THEN found
  ELSE ReachableFrom(tasks,
                     found \cup {k \in 1..Len(tasks) : \E j \in found : OpenEdge(tasks, j, k)},
                     n - 1)

\* task i is on a dependency cycle none of whose tasks is done
OnOpenCycle(tasks, i) ==
  \E k \in 1..Len(tasks) :
    OpenEdge(tasks, i, k) /\ i \in ReachableFrom(tasks, {k}, Len(tasks))

\* C26: a task on a dependency cycle none of whose tasks is done is not done
\* after an update call that leaves the dependencies of the tasks on such
\* cycles as they are, and it is still on such a cycle; so no sequence of
\* such calls completes it.
C26_CycleNeverCompleted ==
  [][(/\ last'.op = "update"
      /\ Len(storage') = Len(storage)
      /\ \A i \in 1..Len(storage) :
           OnOpenCycle(storage, i) => storage'[i].dependencies = storage[i].dependencies)
     => \A i \in 1..Len(storage) :
          OnOpenCycle(storage, i) =>
            storage'[i].status # "done" /\ OnOpenCycle(storage', i)]_vars

\* two tasks list each other; an update of the first one, written with its
\* dependencies as they were, was followed by an update to done that was
\* refused
C26_Witness ==
  /\ Len(storage) = 2
  /\ storage[1].dependencies = <<storage[2].id>>
  /\ storage[2].dependencies = <<storage[1].id>>
  /\ OnOpenCycle(storage, 1) /\ OnOpenCycle(storage, 2)
  /\ storage[1].updatedAt > 2
  /\ last.op = "update" /\ last.input.status = Some("done")
  /\ last.code = "DEPENDENCY_ERROR"

----------------------------------------------------------------------------
(* The task-spawning variant (src/services/taskService.ts): completing a   *)
(* recurring task adds the next task to the collection.  A recurrence is   *)
(* [type, interval].                                                        *)

\* the day of the calls
Today == 1

\* isValidDueDateISO of the variant: a date that parses and is not before
\* the day of the call
isDueTodayOrLater(iso, today) == iso # NaD /\ iso >= today

recurrenceSchema(recurrence) ==
  IF recurrence = None THEN Ok(None)
  ELSE IF ~isValidRecurrenceFrequency(Value(recurrence).type)
    THEN Invalid("Invalid enum value")
  ELSE IF IsSome(Value(recurrence).interval) /\ Value(Value(recurrence).interval) < 1
    THEN Invalid("Number must be greater than or equal to 1")
  ELSE Ok(recurrence)

\* taskInputSchema.parse, followed by normalizeTags of the variant
taskInputSchema(input, today) ==
  IF input.title = None \/ Trim(Value(input.title)) = "" THEN Invalid("Title is required")
  ELSE IF IsSome(input.status) /\ ~isValidStatus(Value(input.status))
    THEN Invalid("Invalid enum value")
  ELSE IF IsSome(input.priority) /\ ~isValidPriority(Value(input.priority))
    THEN Invalid("Invalid enum value")
  ELSE IF input.dueDate = None THEN Invalid("Required")
  ELSE IF ~isDueTodayOrLater(Value(input.dueDate), today)
    THEN Invalid("Due date must be today or future")
  ELSE IF IsSome(input.tags) /\ \E i \in 1..Len(Value(input.tags)) : Trim(Value(input.tags)[i]) = ""
    THEN Invalid("Tags cannot be empty")
  ELSE IF ~recurrenceSchema(input.recurrence).success THEN recurrenceSchema(input.recurrence)
  ELSE Ok([id |-> input.id,
           title |-> Trim(Value(input.title)),
           description |-> IF IsSome(input.description)
                           THEN Some(Trim(Value(input.description))) ELSE None,
           status |-> Coalesce(input.status, "todo"),
           priority |-> Coalesce(input.priority, "medium"),
           dueDate |-> Value(input.dueDate),
           tags |-> IF IsSome(input.tags)
                    THEN normalizeTags([i \in 1..Len(Value(input.tags)) |->
                                          Trim(Value(input.tags)[i])])
                    ELSE <<>>,
           dependencies |-> Coalesce(input.dependencies, <<>>),
           recurrence |-> input.recurrence])

taskUpdateSchema(input, today) ==
  IF input.id = None THEN Invalid("Required") ELSE taskInputSchema(input, today)

checkDependencies(task, allTasks) ==
  \A d \in 1..Len(task.dependencies) :
    \E i \in 1..Len(allTasks) :
      allTasks[i].id = task.dependencies[d] /\ allTasks[i].status = "done"

generateNextRecurringTask(task, id, now) ==
  IF task.recurrence = None THEN None
  ELSE LET rec == Value(task.recurrence)
           nextDueDate ==
             CASE rec.type = "daily" -> Some(task.dueDate + 1)
               [] rec.type = "weekly" -> Some(task.dueDate + 7)
               [] rec.type = "monthly" ->
                    Some(setMonth(task.dueDate, getMonth(task.dueDate) + 1))
               [] rec.type = "custom" ->
                    Some(task.dueDate + (IF rec.interval = None \/ Value(rec.interval) = 0
                                         THEN 1 ELSE Value(rec.interval)))
               [] OTHER -> None
       IN IF nextDueDate = None THEN None
          ELSE Some([task EXCEPT !.id = id, !.status = "todo",
                                 !.dueDate = Value(nextDueDate),
                                 !.createdAt = now, !.updatedAt = now])

\* create of the variant
createSpawning(input, tasks, id, now, today) ==
  LET validation == taskInputSchema(input, today) IN
  IF ~validation.success THEN Failure("ZodError", validation.message, tasks)
  ELSE LET validated == validation.data
           task == [id |-> id,
                    title |-> validated.title,
                    description |-> validated.description,
                    status |-> validated.status,
                    priority |-> validated.priority,
                    dueDate |-> validated.dueDate,
                    tags |-> validated.tags,
                    dependencies |-> validated.dependencies,
                    recurrence |-> validated.recurrence,
                    createdAt |-> now,
                    updatedAt |-> now]
       IN Written(Append(tasks, task), Some(task))

\* update of the variant; id is the id generateId returns when it is called
updateSpawning(input, tasks, id, now, today) ==
  LET validation == taskUpdateSchema(input, today) IN
  IF ~validation.success THEN Failure("ZodError", validation.message, tasks)
  ELSE LET validated == validation.data
           idx == findIndex(tasks, Value(validated.id))
       IN
       IF idx = 0 THEN Failure("NOT_FOUND", "Task not found", tasks)
       ELSE IF validated.status = "done" /\ ~checkDependencies(tasks[idx], tasks)
         THEN Failure("DEPENDENCY_ERROR",
                      "Cannot complete task: dependencies not satisfied", tasks)
       ELSE LET updated == [tasks[idx] EXCEPT
                              !.title = validated.title,
                              !.description = validated.description,
                              !.status = validated.status,
                              !.priority = validated.priority,
                              !.dueDate = validated.dueDate,
                              !.tags = validated.tags,
                              !.dependencies = validated.dependencies,
                              !.recurrence = validated.recurrence,
                              !.updatedAt = now]
                nextTask == IF updated.status = "done" /\ updated.recurrence # None
                            THEN generateNextRecurringTask(updated, id, now)
                            ELSE None
            IN Written([tasks EXCEPT ![idx] = updated]
                         \o (IF IsSome(nextTask) THEN <<Value(nextTask)>> ELSE <<>>),
                       Some(updated))

----------------------------------------------------------------------------
(* create and update of the variant, used by one caller at a time *)

\* the inputs: a task due in two weeks, with or without a status, recurring
\* or not
SpawningInputs ==
  {[NoInput EXCEPT !.title = Some("A"), !.dueDate = Some(MakeDay(EpochYear, 1, 15)),
                   !.status = s, !.recurrence = r] :
     s \in StatusInputs,
     r \in {None} \cup {Some([type |-> t, interval |-> IF t = "custom" THEN Some(3) ELSE None]) :
                          t \in Range(ALLOWED_RECURRENCE_FREQUENCY)}}

CreateSpawning(input) ==
  /\ nextId <= MaxTasks
  /\ clock < MaxClock
  /\ LET result == createSpawning(input, storage, generateId(nextId), clock, Today) IN
     /\ Finish("create", input, result)
     /\ nextId' = IF result.wrote THEN nextId + 1 ELSE nextId

UpdateSpawning(input) ==
  /\ clock < MaxClock
  /\ LET result == updateSpawning(input, storage, generateId(nextId), clock, Today) IN
     /\ Finish("update", input, result)
     /\ nextId' = IF result.wrote /\ Len(result.tasks) > Len(storage)
                  THEN nextId + 1 ELSE nextId

NextSpawning ==
  \/ \E input \in SpawningInputs : CreateSpawning(input)
  \/ \E input \in SpawningInputs, id \in IdInputs : UpdateSpawning([input EXCEPT !.id = id])

SpecSpawning == Init /\ [][NextSpawning]_vars

----------------------------------------------------------------------------
(* Claims about the task-spawning variant *)

\* the due date one period after that of the task
OnePeriodLater(task) ==
  LET rec == Value(task.recurrence) IN
  CASE rec.type = "daily" -> task.dueDate + 1
    [] rec.type = "weekly" -> task.dueDate + 7
    [] rec.type = "monthly" ->
         MakeDay(getFullYear(task.dueDate), getMonth(task.dueDate) + 2, getDate(task.dueDate))
    [] rec.type = "custom" -> task.dueDate + Value(rec.interval)

\* C27: a successful update of the variant adds a task exactly when it moves
\* a recurring task from a status other than done to done; the task added is
\* the last one, has status todo, an id no task had, and is due one period
\* after the updated task.  Every other update, that of a recurring task
\* that is done already among them, adds none.
C27_SuccessorOnlyOnCompletion ==
  (last.op = "update" /\ last.code = "OK") =>
    IF /\ LastTask.status # "done"
       /\ storage[LastIndex].status = "done"
       /\ storage[LastIndex].recurrence # None
    THEN /\ Len(storage) = Len(last.before) + 1
         /\ storage[Len(storage)].status = "todo"
         /\ \A i \in 1..Len(last.before) : last.before[i].id # storage[Len(storage)].id
         /\ storage[Len(storage)].dueDate = OnePeriodLater(storage[LastIndex])
    ELSE Len(storage) = Len(last.before)

----------------------------------------------------------------------------
(* Claims about canCompleteTask and the gate of update *)

\* the last call was an update with valid input and the status done, of a
\* stored task that is not done
CompletingUpdate ==
  /\ ValidUpdate /\ last.input.status = Some("done")
  /\ LastIndex # 0 /\ LastTask.status # "done"

\* C28: for a stored task that is not done, canCompleteTask answers true
\* exactly when an update of the task with valid input and the status done,
\* made on the same collection, does not fail with DEPENDENCY_ERROR: this
\* holds for the answer canCompleteTask gives on the collection the update
\* read, and for the answer of a canCompleteTask call that the update
\* follows at once.
C28_CanCompleteAgreesWithGate ==
  /\ [](CompletingUpdate =>
          ((canCompleteTask(LastId, last.before).canComplete = Some(TRUE))
             <=> last.code # "DEPENDENCY_ERROR"))
  /\ [][(/\ last.op = "canCompleteTask"
         /\ CompletingUpdate'
         /\ last'.input.id = last.input.id)
        => ((last.canComplete = Some(TRUE)) <=> last'.code # "DEPENDENCY_ERROR")]_vars

\* the second task lists the first, which is in progress: the update of the
\* second to done was refused and canCompleteTask answers false on the same
\* collection
C28_Witness ==
  /\ CompletingUpdate
  /\ Len(last.before) = 2 /\ LastIndex = 2
  /\ LastTask.dependencies = <<last.before[1].id>>
  /\ last.before[1].status = "in-progress"
  /\ last.code = "DEPENDENCY_ERROR"
  /\ canCompleteTask(LastId, last.before).canComplete = Some(FALSE)

----------------------------------------------------------------------------
(* Claims about remove in the shared engine *)

\* C29: the collection a remove call passes to setAllTasks holds no task
\* whose dependencies include the id of the removed task, whatever the other
\* caller's create, update or remove does meanwhile.
C29_RemoveWritesNoDanglingReference ==
  \A c \in Callers :
    (calls[c].op = "remove" /\ IsSome(calls[c].pending)) =>
      \A i \in 1..Len(Value(calls[c].pending)) :
        Value(calls[c].input.id) \notin Range(Value(calls[c].pending)[i].dependencies)

\* a remove has returned; between its read and its write the other caller
\* wrote a new task that depends on the removed one
C29_Witness ==
  \E c \in Callers, d \in Callers :
    /\ calls[c].op = "remove" /\ calls[c].pc = "done"
    /\ calls[c].error = None /\ calls[c].writes = 1
    /\ calls[d].op = "create" /\ calls[d].pc = "done"
    /\ calls[d].error = None /\ calls[d].writes = 1
    /\ Value(calls[d].task).dependencies = <<Value(calls[c].input.id)>>
    /\ calls[c].readAt < calls[d].wroteAt /\ calls[d].wroteAt < calls[c].wroteAt
    /\ storage = Value(calls[c].pending)

----------------------------------------------------------------------------
(* calculateNextOccurrence and getUpcomingRecurring on tasks whose          *)
(* recurrence ends shortly after the due date.                              *)

\* tasks of each frequency, due in the middle of May, whose recurrence ends
\* one day, two days, a week or forty days after the due date
EndingCatalogue ==
  {Recurring(MidMay, "todo", Some(Recurrence(f, Interval(f), Some(MidMay + k)))) :
     f \in Range(ALLOWED_RECURRENCE_FREQUENCY), k \in {1, 2, 7, 40}}

InitEnding ==
  /\ storage \in Stores(EndingCatalogue)
  /\ nextId = Len(storage) + 1
  /\ clock = Len(storage)
  /\ last = NoCall
  /\ calls = NoCalls
  /\ probe = NoProbe

NextEnding ==
  \/ \E index \in 1..Len(storage) : CalculateNextOccurrence(index)
  \/ \E limit \in {None} \cup {Some(n) : n \in 0..MaxLimit} :
       GetUpcomingRecurring(limit, MidMay)

SpecEnding == InitEnding /\ [][NextEnding]_vars

\* the next occurrence lies after the due date of the task and not after the
\* end date of its recurrence
WithinRecurrence(task, next) ==
  IsSome(Value(task.recurrence).endDate)
    => /\ task.dueDate < next
       /\ next <= Value(Value(task.recurrence).endDate)

\* C30: a next occurrence that calculateNextOccurrence returns for a task
\* whose recurrence has an end date is strictly later than the due date and
\* not later than the end date, and getUpcomingRecurring reports no
\* occurrence after the end date of the recurrence.
C30_NextOccurrenceWithinRecurrence ==
  /\ (probe.op = "calculateNextOccurrence" /\ probe.task.recurrence # None
      /\ IsSome(probe.out))
       => WithinRecurrence(probe.task, Value(probe.out))
  /\ probe.op = "getUpcomingRecurring"
       => \A i \in 1..Len(probe.out) :
            WithinRecurrence(probe.out[i].task, probe.out[i].nextOccurrence)

====
